---------------------------- MODULE Spec2Model ----------------------------
(***************************************************************************)
(* A model of two subsystems of GNUnet:                                    *)
(*                                                                         *)
(*  - the trail/finger core of the W-DHT neighbours service                *)
(*    (src/src/dht/gnunet-service-wdht_neighbours.c), as seen by one peer: *)
(*    friends, trails, the id map, the expiration heap, the per-layer      *)
(*    finger tables, the two scheduler tasks and the message handlers;     *)
(*  - the transport service's ATS address bookkeeping                      *)
(*    (src/unnamed/part_006, gnunet-service-transport_ats.c).              *)
(*                                                                         *)
(* Each handler of the C code is one action; a handler runs to completion  *)
(* (single-threaded scheduler).  Pointers are handles; a freed object      *)
(* keeps its handle, so that a dangling pointer stays visible.             *)
(***************************************************************************)
EXTENDS Integers, Sequences, FiniteSets, TLC

(***************************************************************************)
(* Bounds of the model.                                                    *)
(***************************************************************************)
\* number of other peers that may connect (their identities are 1..NumPeers)
NumPeers == 2
\* number of struct Trail allocations a run may make
MaxTrails == 5
\* the clock runs from 0 to MaxTime (unit: 42 minutes, see TRAIL_TIMEOUT)
MaxTime == 4
\* number of trail identifiers a remote peer may pick from
NumRemoteIds == 1
\* largest hop count a received RANDOM_WALK carries
MaxHops == 1
\* largest value of the network size estimate GDS_NSE_get ()
MaxNse == 1
\* longest path a received TrailRoute message declares
MaxPathLen == 1

(***************************************************************************)
(* Program constants.                                                      *)
(***************************************************************************)
\* NUMBER_LAYERED_ID is 8 in the source; the model keeps 2 layers
NUMBER_LAYERED_ID == 2
\* get_desired_finger_array_size () returns 64; the model keeps 2 slots
DesiredFingerArraySize == 2
\* TRAIL_TIMEOUT and RANDOM_WALK_DELAY are both 42 minutes: one clock unit
TRAIL_TIMEOUT == 1
RANDOM_WALK_DELAY == 1
\* sizeof (struct TrailRouteMessage): header 4 + 2 + 2 + hash 64
SizeofTrailRouteMessage == 72
\* sizeof (struct GNUNET_PeerIdentity)
SizeofPeerIdentity == 32
\* sizeof (struct GNUNET_MessageHeader)
SizeofMessageHeader == 4
\* sizeof (struct FindSuccessorMessage): header 4 + 4 + hash 64
SizeofFindSuccessorMessage == 72
\* GNUNET_SERVER_MAX_MESSAGE_SIZE
GNUNET_SERVER_MAX_MESSAGE_SIZE == 65536

NULL == -1
my_identity == 0
Peers == 1 .. NumPeers
Layers == 0 .. (NUMBER_LAYERED_ID - 1)
\* the all-zero hash code left by GNUNET_new / GNUNET_MQ_msg
ZeroHash == 0
\* identifiers chosen by remote peers (ours are drawn fresh, see FreshId)
RemoteIds == { 100 + k : k \in 1 .. NumRemoteIds }
\* locations a walk response may carry
Locations == {ZeroHash, 7}

VARIABLES
  status,              \* "run", or how the process died: "abort" | "segv" | "uaf"
  now,                 \* GNUNET_TIME_absolute_get ()
  friends_peermap,     \* identities of the friends
  pred_list,           \* [peer -> Seq(trail)]: FriendInfo.pred_head .. pred_tail
  succ_list,           \* [peer -> Seq(trail)]: FriendInfo.succ_head .. succ_tail
  trails,              \* Seq(struct Trail): every trail ever allocated
  trail_map,           \* set of <<id, trail>>
  trail_heap,          \* set of trails (ordered by expiration_time)
  trail_timeout_task,  \* NULL or the time the task is due
  random_walk_task,    \* NULL or the time the task is due
  walk_layer,          \* static unsigned int walk_layer of do_random_walk
  fingers,             \* [layer -> struct FingerTable]
  host_little_endian,  \* byte order of the machine the service was built for
  last                 \* what the last handler did (history)

dhtvars == << status, now, friends_peermap, pred_list, succ_list, trails,
              trail_map, trail_heap, trail_timeout_task, random_walk_task,
              walk_layer, fingers, host_little_endian, last >>

\* the state of the ATS address bookkeeping (gnunet-service-transport_ats.c)
VARIABLES
  ats_status,     \* "run", or how the process died: "abort" | "uaf"
  p2a,            \* the AddressInfo records in the map (handles into ai)
  ai,             \* Seq(struct AddressInfo): every record ever allocated
  num_blocked,    \* static unsigned int num_blocked
  ars,            \* Seq: the ATS address records handed out by address_add
  ats_last        \* what the last call did (history)

atsvars == << ats_status, p2a, ai, num_blocked, ars, ats_last >>

vars == << dhtvars, atsvars >>

(***************************************************************************)
(* Sequence helpers.                                                       *)
(***************************************************************************)
Range(s) == { s[i] : i \in 1 .. Len(s) }

IndexOf(s, x) == CHOOSE i \in 1 .. Len(s) : s[i] = x

RemoveAt(s, i) == [ j \in 1 .. (Len(s) - 1) |-> IF j < i THEN s[j] ELSE s[j + 1] ]

Min(a, b) == IF a < b THEN a ELSE b

Max(a, b) == IF a > b THEN a ELSE b

(***************************************************************************)
(* struct Finger, struct FingerTable, struct Trail                         *)
(***************************************************************************)
\* a NULL entry of FingerTable.fingers
NoFinger == [ trail |-> NULL, destination |-> ZeroHash, valid |-> FALSE ]

\* a finger table as the zeroed static array leaves it
EmptyFingerTable ==
  [ fingers |-> << >>, finger_array_size |-> 0, number_valid_fingers |-> 0,
    walk_offset |-> 0, is_sorted |-> FALSE ]

\* GNUNET_new (struct Trail): all fields zero
NewTrail ==
  [ pred_id |-> ZeroHash, succ_id |-> ZeroHash, expiration_time |-> 0,
    pred |-> NULL, succ |-> NULL, ft |-> NULL, finger_off |-> 0,
    freed |-> FALSE ]

\* slot i (0-based) of a finger table
Slot(ft, i) == ft.fingers[i + 1]

\* GNUNET_CRYPTO_hash_create_random for the trail being set up: a value no
\* other trail uses (a collision of two 512 bit nonces does not happen)
FreshId(t) == t

\* GNUNET_CONTAINER_multihashmap_get (trail_map, id)
MapGet(map, id) ==
  IF \E p \in map : p[1] = id THEN (CHOOSE p \in map : p[1] = id)[2] ELSE NULL

MapContains(map, id) == \E p \in map : p[1] = id

(***************************************************************************)
(* The state a handler works on, threaded through the helpers below.       *)
(***************************************************************************)
Cur ==
  [ status |-> status, pred_list |-> pred_list, succ_list |-> succ_list,
    trails |-> trails, trail_map |-> trail_map, trail_heap |-> trail_heap,
    fingers |-> fingers, sent |-> << >>, deletes |-> << >> ]

\* GNUNET_MQ_send (friend->mq, env)
Send(st, to, msg) == [ st EXCEPT !.sent = Append(@, [ to |-> to, msg |-> msg ]) ]

TrailDestroyMsg(id) == [ type |-> "TRAIL_DESTROY", trail_id |-> id ]


(***************************************************************************)
(* GNUNET_CONTAINER_MDLL_insert / _remove (gnunet_container_lib.h).  A     *)
(* list is the sequence head .. tail.  _remove takes the head and tail     *)
(* variables separately from the element, whose prev_/next_ links say      *)
(* where it is linked (`links`); `anchor` is the list whose head and tail  *)
(* variables were passed.  The macro asserts that an element without a     *)
(* previous (next) element is the head (tail) it was given.                *)
(***************************************************************************)
MDLL_insert(list, t) == << t >> \o list

MDLL_remove(links, anchor, t) ==
  LET linked == t \in Range(links)
      i == IF linked THEN IndexOf(links, t) ELSE 0
      prev_null == (~linked) \/ i = 1
      next_null == (~linked) \/ i = Len(links)
      head_is_t == anchor # << >> /\ anchor[1] = t
      tail_is_t == anchor # << >> /\ anchor[Len(anchor)] = t
  IN  IF (prev_null /\ ~head_is_t) \/ (next_null /\ ~tail_is_t)
        THEN [ outcome |-> "abort", list |-> links ]
      ELSE IF links = anchor \/ (~prev_null /\ ~next_null)
        THEN [ outcome |-> "ok", list |-> RemoveAt(links, i) ]
      ELSE \* head or tail of another list rewritten: the lists are corrupt
           [ outcome |-> "uaf", list |-> links ]

(***************************************************************************)
(* delete_trail (trail, inform_pred, inform_succ)                          *)
(***************************************************************************)
\* the smallest expiration_time in the heap (cost of the heap's root)
HeapMinCost(st) ==
  CHOOSE c \in { st.trails[t].expiration_time : t \in st.trail_heap } :
    \A u \in st.trail_heap : st.trails[u].expiration_time >= c

\* what a call of delete_trail is remembered by
DeleteEntry(st, t, inform_pred, inform_succ, returned) ==
  [ trail |-> t, inform_pred |-> inform_pred, inform_succ |-> inform_succ,
    expiration_time |-> st.trails[t].expiration_time,
    heap_min |-> IF st.trail_heap = {} THEN NULL ELSE HeapMinCost(st),
    returned |-> returned ]

\* lines 662-677: the predecessor's side
DeletePredSide(st, t, inform_pred) ==
  LET tr == st.trails[t]
      f == tr.pred
      s1 == IF inform_pred THEN Send(st, f, TrailDestroyMsg(tr.pred_id)) ELSE st
      r == MDLL_remove(s1.pred_list[f], s1.pred_list[f], t)
  IN  IF f = NULL THEN st
      ELSE IF r.outcome # "ok" THEN [ s1 EXCEPT !.status = r.outcome ]
      ELSE [ s1 EXCEPT !.pred_list[f] = r.list ]

\* lines 678-693: the successor's side; the message carries pred_id and the
\* element is removed with the friend's pred_head and pred_tail
DeleteSuccSide(st, t, inform_succ) ==
  LET tr == st.trails[t]
      f == tr.succ
      s1 == IF inform_succ THEN Send(st, f, TrailDestroyMsg(tr.pred_id)) ELSE st
      r == MDLL_remove(s1.succ_list[f], s1.pred_list[f], t)
  IN  IF f = NULL THEN st
      ELSE IF r.outcome # "ok" THEN [ s1 EXCEPT !.status = r.outcome ]
      ELSE [ s1 EXCEPT !.succ_list[f] = r.list ]

\* the slot is cleared and the counter is left as it was
FingerFreedCountKept(ft, off) == [ ft EXCEPT !.fingers[off + 1] = NoFinger ]

\* lines 699-701: the slot is cleared, the counter decremented (an unsigned
\* int: a value below zero here is the wrap-around), the finger freed
FingerFreed(ft, off) ==
  [ ft EXCEPT !.fingers[off + 1] = NoFinger,
              !.number_valid_fingers = @ - 1 ]

\* the trail leaves the heap and is freed while its finger stays in the slot
DeleteRestKeepsFinger(st, t) ==
  IF st.trails[t].ft = NULL
    THEN [ st EXCEPT !.trail_heap = @ \ {t}, !.status = "segv" ]
  ELSE [ st EXCEPT !.trail_heap = @ \ {t}, !.trails[t].freed = TRUE ]

\* lines 694-703: heap, finger slot, free.  The id map is not touched.
DeleteRest(st, t) ==
  LET tr == st.trails[t]
      s1 == [ st EXCEPT !.trail_heap = @ \ {t} ]
      ft == s1.fingers[tr.ft]
      finger == Slot(ft, tr.finger_off)
      s2 == IF finger.trail # NULL
              THEN [ s1 EXCEPT !.fingers[tr.ft] = FingerFreed(@, tr.finger_off) ]
              ELSE s1
  IN  IF tr.ft = NULL
        THEN [ s1 EXCEPT !.status = "segv" ]   \* trail->ft->fingers with ft NULL
      ELSE [ s2 EXCEPT !.trails[t].freed = TRUE ]

\* the call is entered in the history
DeleteLog(st, t, inform_pred, inform_succ) ==
  [ st EXCEPT !.deletes = Append(@, DeleteEntry(st, t, inform_pred, inform_succ, FALSE)) ]

\* the call returned
DeleteReturned(st) == [ st EXCEPT !.deletes[Len(st.deletes)].returned = TRUE ]

\* the rest of delete_trail is skipped once the process has died
DeleteSuccSideIfRun(st, t, inform_succ) ==
  IF st.status = "run" THEN DeleteSuccSide(st, t, inform_succ) ELSE st

DeleteRestIfRun(st, t) == IF st.status = "run" THEN DeleteRest(st, t) ELSE st

DeleteReturnedIfRun(st) == IF st.status = "run" THEN DeleteReturned(st) ELSE st

DeleteSteps(st, t, inform_pred, inform_succ) ==
  DeleteReturnedIfRun(
    DeleteRestIfRun(
      DeleteSuccSideIfRun(
        DeletePredSide(DeleteLog(st, t, inform_pred, inform_succ), t, inform_pred),
        t, inform_succ),
      t))

delete_trail(st, t, inform_pred, inform_succ) ==
  IF st.status # "run" THEN st
  ELSE IF t = NULL THEN [ st EXCEPT !.status = "segv" ]
  ELSE IF st.trails[t].freed THEN [ st EXCEPT !.status = "uaf" ]
  ELSE DeleteSteps(st, t, inform_pred, inform_succ)

(***************************************************************************)
(* Writing a handler's result back.                                        *)
(***************************************************************************)
Commit(st, what) ==
  /\ status' = st.status
  /\ pred_list' = st.pred_list
  /\ succ_list' = st.succ_list
  /\ trails' = st.trails
  /\ trail_map' = st.trail_map
  /\ trail_heap' = st.trail_heap
  /\ fingers' = st.fingers
  /\ last' = [ what EXCEPT !.deletes = st.deletes, !.sent = st.sent ]

\* the fields every history record has
Did(op) == [ op |-> op, deletes |-> << >>, sent |-> << >> ]

DhtInit ==
  /\ status = "run"
  /\ now = 0
  /\ friends_peermap = {}
  /\ pred_list = [ p \in Peers |-> << >> ]
  /\ succ_list = [ p \in Peers |-> << >> ]
  /\ trails = << >>
  /\ trail_map = {}
  /\ trail_heap = {}
  /\ trail_timeout_task = NULL
  /\ random_walk_task = NULL
  /\ walk_layer = 0
  /\ fingers = [ l \in Layers |-> EmptyFingerTable ]
  /\ host_little_endian \in BOOLEAN
  /\ last = Did("init")

\* the scheduler's clock moves on
AdvanceTime ==
  /\ status = "run"
  /\ UNCHANGED << host_little_endian, atsvars >>
  /\ now < MaxTime
  /\ now' = now + 1
  /\ last' = Did("time")
  /\ UNCHANGED << status, friends_peermap, pred_list, succ_list, trails, trail_map,
                  trail_heap, trail_timeout_task, random_walk_task, walk_layer,
                  fingers >>

(***************************************************************************)
(* handle_core_connect (peer_identity)                                     *)
(***************************************************************************)
\* the early returns taken with the self test left out
ConnectRejectedKnownOnly(peer) == peer \in friends_peermap

\* lines 1072-1085: connect to self, or peer already in friends_peermap
ConnectRejected(peer) == peer = my_identity \/ peer \in friends_peermap

handle_core_connect(peer) ==
  /\ status = "run"
  /\ UNCHANGED << host_little_endian, atsvars >>
  /\ IF ConnectRejected(peer)
       THEN /\ last' = [ op |-> "connect_ignored", peer |-> peer,
                         deletes |-> << >>, sent |-> << >> ]
            /\ UNCHANGED << friends_peermap, pred_list, succ_list, random_walk_task >>
       ELSE /\ friends_peermap' = friends_peermap \cup {peer}
            /\ pred_list' = [ pred_list EXCEPT ![peer] = << >> ]
            /\ succ_list' = [ succ_list EXCEPT ![peer] = << >> ]
            /\ random_walk_task' =
                 IF random_walk_task = NULL THEN now ELSE random_walk_task
            /\ last' = [ op |-> "connect", peer |-> peer,
                         deletes |-> << >>, sent |-> << >> ]
  /\ UNCHANGED << status, now, trails, trail_map, trail_heap, trail_timeout_task,
                  walk_layer, fingers >>

(***************************************************************************)
(* handle_core_disconnect (peer)                                           *)
(***************************************************************************)
RECURSIVE DrainSucc(_, _)
\* while (NULL != (t = remove_friend->succ_head)) delete_trail (t, YES, NO)
DrainSucc(st, f) ==
  IF st.status # "run" \/ st.succ_list[f] = << >> THEN st
  ELSE DrainSucc(delete_trail(st, st.succ_list[f][1], TRUE, FALSE), f)

RECURSIVE DrainPred(_, _)
\* while (NULL != (t = remove_friend->pred_head)) delete_trail (t, NO, YES)
DrainPred(st, f) ==
  IF st.status # "run" \/ st.pred_list[f] = << >> THEN st
  ELSE DrainPred(delete_trail(st, st.pred_list[f][1], FALSE, TRUE), f)

\* the test for an empty friend map left out: the task is never cancelled
NoFriendLeftNever(peer) == FALSE

\* lines 879-880: 0 == GNUNET_CONTAINER_multipeermap_size (friends_peermap),
\* evaluated after the friend was removed
NoFriendLeft(peer) == friends_peermap \ {peer} = {}

handle_core_disconnect(peer) ==
  /\ status = "run"
  /\ UNCHANGED << host_little_endian, atsvars >>
  /\ IF peer = my_identity \/ peer \notin friends_peermap
       THEN /\ last' = Did("disconnect_ignored")
            /\ UNCHANGED << status, friends_peermap, pred_list, succ_list, trails,
                            trail_map, trail_heap, fingers, random_walk_task >>
       ELSE LET st == DrainPred(DrainSucc(Cur, peer), peer)
            IN  /\ friends_peermap' = friends_peermap \ {peer}
                /\ Commit(st, [ op |-> "disconnect", peer |-> peer,
                                  deletes |-> << >>, sent |-> << >> ])
                /\ random_walk_task' =
                     IF st.status = "run" /\ NoFriendLeft(peer)
                       THEN NULL ELSE random_walk_task
  /\ UNCHANGED << now, trail_timeout_task, walk_layer >>

(***************************************************************************)
(* trail_timeout_callback                                                  *)
(***************************************************************************)
\* GNUNET_TIME_absolute_get_remaining
Remaining(t_abs) == Max(0, t_abs - now)

\* GNUNET_CONTAINER_heap_peek: the root of the min-heap, some trail of least
\* expiration_time
HeapPeek(st) ==
  { t \in st.trail_heap : st.trails[t].expiration_time = HeapMinCost(st) }

\* lines 946-948: does the loop stop at this trail?
NotExpired(st, t) == Remaining(st.trails[t].expiration_time) # 0

RECURSIVE TimeoutLoop(_)
\* the while loop and the rescheduling; yields the set of pairs
\* << state, trail_timeout_task >> the callback can end in
TimeoutLoop(st) ==
  IF st.status # "run" THEN { << st, NULL >> }
  ELSE IF st.trail_heap = {} THEN { << st, NULL >> }
  ELSE UNION { IF NotExpired(st, t)
                 THEN { << st, now + Remaining(st.trails[t].expiration_time) >> }
                 ELSE TimeoutLoop(delete_trail(st, t, TRUE, TRUE))
               : t \in HeapPeek(st) }

trail_timeout_callback ==
  /\ status = "run"
  /\ UNCHANGED << host_little_endian, atsvars >>
  /\ trail_timeout_task # NULL
  /\ trail_timeout_task <= now
  /\ \E r \in TimeoutLoop(Cur) :
       /\ Commit(r[1], [ Did("trail_timeout") EXCEPT !.op = "trail_timeout" ])
       /\ trail_timeout_task' = r[2]
  /\ UNCHANGED << now, friends_peermap, random_walk_task, walk_layer >>

(***************************************************************************)
(* do_random_walk                                                          *)
(***************************************************************************)
RandomWalkMsg(hops, layer, id) ==
  [ type |-> "RANDOM_WALK", hops_taken |-> hops, layer |-> layer, trail_id |-> id ]

\* lines 995-1027: the new trail towards `friend`, and the message.  The
\* message's layer field is never assigned: it stays zero.
WalkNewTrail(st, t, friend) ==
  LET tr == [ NewTrail EXCEPT !.succ = friend, !.succ_id = FreshId(t),
                              !.expiration_time = now + TRAIL_TIMEOUT ]
      s1 == [ st EXCEPT !.trails = Append(@, tr),
                        !.trail_map = @ \cup { << FreshId(t), t >> },
                        !.succ_list[friend] = MDLL_insert(@, t),
                        !.trail_heap = @ \cup {t} ]
  IN  Send(s1, friend, RandomWalkMsg(0, 0, FreshId(t)))

\* lines 1031-1035: clean up the 'old' entry of the slot to be reused
WalkCleanSlot(st, layer) ==
  LET ft == st.fingers[layer]
  IN  IF ft.finger_array_size # 0 /\ Slot(ft, ft.walk_offset).trail # NULL
        THEN delete_trail(st, Slot(ft, ft.walk_offset).trail, FALSE, TRUE)
        ELSE st

\* lines 1036-1039: GNUNET_array_grow to the desired size
WalkGrow(st, layer) ==
  LET ft == st.fingers[layer]
      nsize == DesiredFingerArraySize
  IN  IF ft.finger_array_size < nsize
        THEN [ st EXCEPT !.fingers[layer].fingers =
                           [ i \in 1 .. nsize |->
                               IF i <= ft.finger_array_size THEN ft.fingers[i]
                                                            ELSE NoFinger ],
                         !.fingers[layer].finger_array_size = nsize ]
        ELSE st

\* lines 1040-1049: the new finger in slot walk_offset
WalkInstall(st, t, layer) ==
  LET ft == st.fingers[layer]
      off == ft.walk_offset
  IN  IF Slot(ft, off).trail # NULL
        THEN [ st EXCEPT !.status = "abort" ]     \* GNUNET_assert (NULL == slot)
      ELSE [ st EXCEPT !.trails[t].ft = layer,
                       !.trails[t].finger_off = off,
                       !.fingers[layer].fingers[off + 1] =
                         [ trail |-> t, destination |-> ZeroHash, valid |-> FALSE ],
                       !.fingers[layer].is_sorted = FALSE,
                       !.fingers[layer].number_valid_fingers = @ + 1,
                       !.fingers[layer].walk_offset = (off + 1) % ft.finger_array_size ]

\* the rest of do_random_walk is skipped once the process has died
WalkGrowIfRun(st, layer) == IF st.status = "run" THEN WalkGrow(st, layer) ELSE st

WalkInstallIfRun(st, t, layer) ==
  IF st.status = "run" THEN WalkInstall(st, t, layer) ELSE st

\* lines 995-1049 on the store
WalkSteps(st, t, friend, layer) ==
  WalkInstallIfRun(
    WalkGrowIfRun(WalkCleanSlot(WalkNewTrail(st, t, friend), layer), layer),
    t, layer)

\* the finger the slot to be used holds before the walk
WalkOld(ft) ==
  IF ft.finger_array_size = 0 THEN NULL ELSE Slot(ft, ft.walk_offset).trail

\* the layer counter stays where it is
NextWalkLayerStuck(l) == l

\* line 1051: the layer the next tick serves
NextWalkLayer(l) == (l + 1) % NUMBER_LAYERED_ID

\* lines 1018-1021 and 1051-1054 with the store written back
WalkCommit(st, t) ==
  /\ Commit(st, [ op |-> "random_walk", trail |-> t, layer |-> walk_layer,
                  slot |-> fingers[walk_layer].walk_offset,
                  old |-> WalkOld(fingers[walk_layer]),
                  deletes |-> << >>, sent |-> << >> ])
  /\ trail_timeout_task' =
       IF trail_timeout_task = NULL THEN now + TRAIL_TIMEOUT ELSE trail_timeout_task
  /\ walk_layer' = IF st.status = "run" THEN NextWalkLayer(walk_layer)
                                        ELSE walk_layer
  /\ random_walk_task' = IF st.status = "run" THEN now + RANDOM_WALK_DELAY ELSE NULL

do_random_walk ==
  /\ status = "run"
  /\ UNCHANGED << host_little_endian, atsvars >>
  /\ random_walk_task # NULL
  /\ random_walk_task <= now
  /\ Len(trails) < MaxTrails
  /\ IF friends_peermap = {}
       THEN \* pick_random_friend () returned NULL, which is dereferenced
            /\ Commit([ Cur EXCEPT !.status = "segv" ], Did("random_walk_no_friend"))
            /\ random_walk_task' = NULL
            /\ UNCHANGED << trail_timeout_task, walk_layer >>
       ELSE \E friend \in friends_peermap :
              WalkCommit(WalkSteps(Cur, Len(trails) + 1, friend, walk_layer),
                         Len(trails) + 1)
  /\ UNCHANGED << now, friends_peermap >>

(***************************************************************************)
(* handle_dht_p2p_trail_destroy (peer, message)                            *)
(***************************************************************************)
handle_dht_p2p_trail_destroy(peer, id) ==
  /\ status = "run"
  /\ UNCHANGED << host_little_endian, atsvars >>
  /\ peer \in friends_peermap
  /\ LET t == MapGet(trail_map, id)
         tr == trails[t]
         st == IF t = NULL
                 THEN [ Cur EXCEPT !.status = "segv" ]    \* trail->succ with trail NULL
               ELSE IF tr.freed
                 THEN [ Cur EXCEPT !.status = "uaf" ]     \* the map led to a freed trail
               ELSE delete_trail(Cur, t,
                                 tr.succ # NULL /\ peer = tr.succ,
                                 tr.pred # NULL /\ peer = tr.pred)
     IN  Commit(st, [ op |-> "trail_destroy", peer |-> peer, trail_id |-> id,
                      trail |-> t, deletes |-> << >>, sent |-> << >> ])
  /\ UNCHANGED << now, friends_peermap, trail_timeout_task, random_walk_task,
                  walk_layer >>

(***************************************************************************)
(* handle_dht_p2p_random_walk_response (peer, message)                     *)
(***************************************************************************)
RandomWalkResponseMsg(id, location) ==
  [ type |-> "RANDOM_WALK_RESPONSE", trail_id |-> id, location |-> location ]

\* lines 1292-1323: we are the first hop.  The finger is looked up; filling
\* in its destination is left as a FIXME in the source.
ResponseAtOrigin(st, t, location) ==
  LET tr == st.trails[t]
  IN  IF tr.ft = NULL THEN delete_trail(st, t, FALSE, TRUE)
      ELSE IF Slot(st.fingers[tr.ft], tr.finger_off).trail = NULL
        THEN delete_trail(st, t, FALSE, TRUE)
      ELSE st

handle_dht_p2p_random_walk_response(peer, id, location) ==
  /\ status = "run"
  /\ UNCHANGED << host_little_endian, atsvars >>
  /\ peer \in friends_peermap
  /\ LET t == MapGet(trail_map, id)
         tr == trails[t]
         st == IF t = NULL THEN Cur
               ELSE IF tr.freed THEN [ Cur EXCEPT !.status = "uaf" ]
               ELSE IF tr.pred # NULL
                 THEN Send(Cur, tr.pred, RandomWalkResponseMsg(tr.pred_id, location))
               ELSE ResponseAtOrigin(Cur, t, location)
     IN  Commit(st, [ op |-> "random_walk_response", peer |-> peer, trail_id |-> id,
                      location |-> location, trail |-> t,
                      deletes |-> << >>, sent |-> << >> ])
  /\ UNCHANGED << now, friends_peermap, trail_timeout_task, random_walk_task,
                  walk_layer >>

(***************************************************************************)
(* handle_dht_p2p_random_walk (peer, message)                              *)
(***************************************************************************)
\* ntohl applied to the 16 bit field hops_taken (line 1171): the field holds
\* the hop count h in network byte order; it is widened to 32 bits as the
\* host reads it and then byte-swapped as a 32 bit value
ntohl_of_u16_field(h, little_endian) ==
  IF little_endian THEN (h \div 256) * 16777216 + (h % 256) * 65536 ELSE h

\* a relay that hands the hop count on as it came
NextHopsStuck(h) == h

\* htons (1 + ntohs (m->hops_taken)), as the receiver decodes it with ntohs
NextHops(h) == (h + 1) % 65536

\* lines 1201-1203: index (1-based) of the finger the scan stops at, 0 if it
\* runs off the array
RECURSIVE ScanFingers(_, _, _)
ScanFingers(ft, i, off) ==
  IF i > ft.finger_array_size THEN 0
  ELSE IF ft.fingers[i].trail # NULL /\ off = 0 THEN i
  ELSE ScanFingers(ft, i + 1, IF ft.fingers[i].trail # NULL THEN off - 1 ELSE off)

\* lines 1181-1205: the locations the response may carry
ResponseLocations(st, layer) ==
  IF layer = 0 THEN Locations                  \* GDS_DATACACHE_get_random_key
  ELSE IF st.fingers[layer - 1].number_valid_fingers = 0 THEN Locations
  ELSE { IF ScanFingers(st.fingers[layer - 1], 1, off) = 0 THEN NULL
         ELSE st.fingers[layer - 1].fingers[
                ScanFingers(st.fingers[layer - 1], 1, off)].destination
         : off \in 0 .. (st.fingers[layer - 1].number_valid_fingers - 1) }

\* lines 1145-1169: the trail from `peer`, indexed by the id it carried
WalkRelayTrail(st, t, peer, id) ==
  LET tr == [ NewTrail EXCEPT !.pred = peer, !.pred_id = id,
                              !.expiration_time = now + TRAIL_TIMEOUT ]
  IN  [ st EXCEPT !.trails = Append(@, tr),
                  !.trail_map = @ \cup { << id, t >> },
                  !.pred_list[peer] = MDLL_insert(@, t),
                  !.trail_heap = @ \cup {t} ]

\* lines 1215-1244: extend the trail by another random hop
WalkExtend(st, t, succ, hops, layer) ==
  LET s1 == [ st EXCEPT !.trails[t].succ = succ,
                        !.trails[t].succ_id = FreshId(t),
                        !.trail_map = @ \cup { << FreshId(t), t >> },
                        !.succ_list[succ] = MDLL_insert(@, t) ]
  IN  Send(s1, succ, RandomWalkMsg(NextHops(hops), layer, FreshId(t)))

handle_dht_p2p_random_walk(peer, hops, layer, id, nse) ==
  /\ status = "run"
  /\ UNCHANGED << host_little_endian, atsvars >>
  /\ peer \in friends_peermap
  /\ Len(trails) < MaxTrails
  /\ LET t == Len(trails) + 1
         what == [ op |-> "random_walk_msg", peer |-> peer, hops_taken |-> hops,
                   layer |-> layer, trail_id |-> id, nse |-> nse, trail |-> t,
                   ret |-> "OK", deletes |-> << >>, sent |-> << >> ]
     IN  IF layer > NUMBER_LAYERED_ID \/ MapContains(trail_map, id)
           THEN /\ Commit(Cur, [ what EXCEPT !.ret = "SYSERR", !.trail = NULL ])
                /\ UNCHANGED trail_timeout_task
         ELSE /\ trail_timeout_task' =
                   IF trail_timeout_task = NULL THEN now + TRAIL_TIMEOUT
                                                ELSE trail_timeout_task
              /\ IF ntohl_of_u16_field(hops, host_little_endian) > nse
                   THEN \E loc \in ResponseLocations(Cur, layer) :
                          IF loc = NULL     \* the scan read past the array
                            THEN Commit([ WalkRelayTrail(Cur, t, peer, id)
                                            EXCEPT !.status = "uaf" ], what)
                          ELSE Commit(Send(WalkRelayTrail(Cur, t, peer, id), peer,
                                           RandomWalkResponseMsg(id, loc)), what)
                 ELSE \E succ \in friends_peermap :
                        Commit(WalkExtend(WalkRelayTrail(Cur, t, peer, id),
                                          t, succ, hops, layer), what)
  /\ UNCHANGED << now, friends_peermap, random_walk_task, walk_layer >>

(***************************************************************************)
(* forward_message_on_trail and handle_dht_p2p_trail_route                 *)
(***************************************************************************)
PayloadTypes == { "SUCCESSOR_FIND", "GET", "GET_RESULT", "PUT", "OTHER" }

\* static const struct TrailHandler handlers[]: the fixed size per type
HandlerSize(type) == IF type = "SUCCESSOR_FIND" THEN SizeofFindSuccessorMessage ELSE 0

HasHandler(type) == type \in { "SUCCESSOR_FIND", "GET", "GET_RESULT", "PUT" }

TrailRouteMsg(record_path, path, id, ptype, psize) ==
  [ type |-> "TRAIL_ROUTE", record_path |-> record_path, path_length |-> Len(path),
    path |-> path, trail_id |-> id, payload_type |-> ptype, payload_size |-> psize,
    size |-> SizeofTrailRouteMessage + Len(path) * SizeofPeerIdentity + psize ]

\* lines 733-753: the path length of the outgoing message, NULL for "no path"
ForwardPlen(have_path, path_length, payload_len) ==
  IF have_path # 0
    THEN IF path_length + 1 >=
              (GNUNET_SERVER_MAX_MESSAGE_SIZE - payload_len - SizeofTrailRouteMessage)
                \div SizeofPeerIdentity
           THEN NULL
           ELSE path_length + 1
    ELSE NULL

forward_message_on_trail(st, next_target, id, have_path, predecessor, path, m) ==
  LET plen == ForwardPlen(have_path, m.path_length, m.payload_size)
      recorded == [ i \in 1 .. m.path_length |-> path[i] ]
  IN  IF plen = NULL
        THEN Send(st, next_target,
                  TrailRouteMsg(0, << >>, id, m.payload_type, m.payload_size))
        ELSE Send(st, next_target,
                  TrailRouteMsg(have_path, Append(recorded, predecessor), id,
                                m.payload_type, m.payload_size))

\* the checks without the comparison of the size with the payload's size
RouteWellFormedNoPayloadCheck(m) ==
  /\ ~ (m.size < SizeofTrailRouteMessage)
  /\ ~ (m.size < SizeofTrailRouteMessage + m.path_length * SizeofPeerIdentity
                   + SizeofMessageHeader)

\* lines 1594-1617: is the message well-formed?
RouteWellFormed(m) ==
  /\ ~ (m.size < SizeofTrailRouteMessage)
  /\ ~ (m.size < SizeofTrailRouteMessage + m.path_length * SizeofPeerIdentity
                   + SizeofMessageHeader)
  /\ ~ (m.size # m.payload_size + SizeofTrailRouteMessage
                   + m.path_length * SizeofPeerIdentity)

\* every payload with a handler is passed to it, whatever its size
DispatchAnySize(m) == IF HasHandler(m.payload_type) THEN "handled" ELSE "no_handler"

\* lines 1660-1680: the outcome of the dispatch to the payload handlers
Dispatch(m) ==
  IF HasHandler(m.payload_type)
    THEN IF HandlerSize(m.payload_type) = 0 \/ m.payload_size = HandlerSize(m.payload_type)
           THEN "handled" ELSE "bad_size"
    ELSE "no_handler"

\* lines 1619-1658: << state, outcome >>
RouteKnown(st, peer, m) ==
  LET t == MapGet(st.trail_map, m.trail_id)
      tr == st.trails[t]
  IN  IF t = NULL THEN << [ st EXCEPT !.status = "segv" ], "crash" >>
      ELSE IF tr.freed THEN << [ st EXCEPT !.status = "uaf" ], "crash" >>
      ELSE IF tr.pred # NULL /\ peer = tr.pred
        THEN IF tr.succ # NULL
               THEN << forward_message_on_trail(st, tr.succ, tr.succ_id, m.record_path,
                                                peer, m.path, m), "forwarded" >>
               ELSE << st, Dispatch(m) >>
      ELSE IF tr.pred # NULL
        THEN << forward_message_on_trail(st, tr.pred, tr.pred_id, m.record_path,
                                         peer, m.path, m), "forwarded" >>
      ELSE << st, Dispatch(m) >>

handle_dht_p2p_trail_route(peer, m) ==
  /\ status = "run"
  /\ UNCHANGED << host_little_endian, atsvars >>
  /\ peer \in friends_peermap
  /\ LET r == IF RouteWellFormed(m) THEN RouteKnown(Cur, peer, m)
                                    ELSE << Cur, "dropped" >>
     IN  Commit(r[1], [ op |-> "trail_route", peer |-> peer, msg |-> m,
                        outcome |-> r[2], deletes |-> << >>, sent |-> << >> ])
  /\ UNCHANGED << now, friends_peermap, trail_timeout_task, random_walk_task,
                  walk_layer >>

(***************************************************************************)
(* ATS address bookkeeping (gnunet-service-transport_ats.c)                *)
(***************************************************************************)
\* struct AddressInfo records a run may allocate
MaxAi == 2
\* sessions the transport may create per address
SessionsPerAddress == 2
\* GNUNET_ATS_address_add calls a run may make
MaxAr == 3
\* GNUNET_TIME_STD_EXPONENTIAL_BACKOFF_THRESHOLD, in milliseconds (15 minutes
\* in gnunet_time_lib.h; the model keeps 4 ms)
StdBackoffThreshold == 4

\* the addresses of the one peer considered; the inbound option is part of
\* the address
Addresses == { [ name |-> "a", inbound |-> TRUE ], [ name |-> "b", inbound |-> FALSE ] }

\* GNUNET_HELLO_address_check_option (address, GNUNET_HELLO_ADDRESS_INFO_INBOUND)
IsInbound(a) == a.inbound

\* the sessions a plugin creates for an address (a session belongs to one address)
SessionsOf(a) == { (IF a.inbound THEN 10 ELSE 20) + k : k \in 1 .. SessionsPerAddress }



\* GNUNET_TIME_STD_BACKOFF (r): min (max (1 ms, 2 r), threshold)
STD_BACKOFF(r) == Min(Max(1, 2 * r), StdBackoffThreshold)

AtsCur ==
  [ status |-> ats_status, p2a |-> p2a, ai |-> ai, num_blocked |-> num_blocked,
    ars |-> ars, freed |-> << >>, calls |-> << >>, cancelled |-> << >> ]

AtsCommit(st, what) ==
  /\ ats_status' = st.status
  /\ p2a' = st.p2a
  /\ ai' = st.ai
  /\ num_blocked' = st.num_blocked
  /\ ars' = st.ars
  /\ ats_last' = [ what EXCEPT !.freed = st.freed, !.calls = st.calls ]
                  @@ [ cancelled |-> st.cancelled ]

AtsDid(op) == [ op |-> op, freed |-> << >>, calls |-> << >> ]

AtsInit ==
  /\ ats_status = "run"
  /\ p2a = {}
  /\ ai = << >>
  /\ num_blocked = 0
  /\ ars = << >>
  /\ ats_last = AtsDid("init")

(***************************************************************************)
(* The scoring subsystem (gnunet_ats_service.h), as transport uses it.     *)
(***************************************************************************)
\* GNUNET_ATS_address_add: a new address record
ATS_address_add(st, address, session) ==
  [ st EXCEPT !.ars = Append(@, [ state |-> "live", session |-> session,
                                  inbound |-> IsInbound(address) ]),
              !.calls = Append(@, [ call |-> "address_add", ar |-> Len(st.ars) + 1 ]) ]

\* a call on a record that was released already is an error of the caller
ATS_use(st, ar, call) ==
  [ st EXCEPT !.calls = Append(@, [ call |-> call, ar |-> ar ]),
              !.status = IF st.ars[ar].state = "live" THEN @ ELSE "uaf" ]

\* GNUNET_ATS_address_destroy
ATS_address_destroy(st, ar) ==
  [ ATS_use(st, ar, "address_destroy") EXCEPT !.ars[ar].state = "released" ]

\* GNUNET_ATS_address_add_session
ATS_address_add_session(st, ar, session) ==
  [ ATS_use(st, ar, "address_add_session") EXCEPT !.ars[ar].session = session ]

\* GNUNET_ATS_address_del_session answers GNUNET_YES for the record of an
\* inbound address, which it destroys, and GNUNET_NO otherwise
DelSessionGone(st, ar) == st.ars[ar].inbound

ATS_address_del_session(st, ar) ==
  [ ATS_use(st, ar, "address_del_session")
      EXCEPT !.ars[ar].session = NULL,
             !.ars[ar].state = IF DelSessionGone(st, ar) THEN "released" ELSE @ ]

(***************************************************************************)
(* find_ai, find_ai_no_session                                             *)
(***************************************************************************)
\* the records find_ai (address, session) may return; the map's iteration
\* stops at the first match, NULL if there is none
find_ai(st, address, session) ==
  LET hits == { i \in st.p2a : st.ai[i].address = address /\ st.ai[i].session = session }
  IN  IF hits = {} THEN {NULL} ELSE hits

\* find_ai_cb's assertion: a record that does not match must not hold the
\* session looked for
find_ai_asserts(st, address, session) ==
  \A i \in st.p2a :
    (st.ai[i].address # address) => (st.ai[i].session # session \/ st.ai[i].session = NULL)

\* the records find_ai_no_session (address) may return: the first record of
\* that address the map's iteration meets
find_ai_no_session(st, address) ==
  LET hits == { i \in st.p2a : st.ai[i].address = address }
  IN  IF hits = {} THEN {NULL} ELSE hits

\* GNUNET_new (struct AddressInfo) as the two add functions fill it in
NewAddressInfo(address, session, ar) ==
  [ address |-> address, session |-> session, ar |-> ar, back_off |-> 0,
    unblock_task |-> FALSE, expired |-> FALSE, freed |-> 0 ]

\* GNUNET_free (ai)
FreeAi(st, i) == [ st EXCEPT !.ai[i].freed = @ + 1, !.freed = Append(@, i) ]

(***************************************************************************)
(* GST_ats_expire_address (address)                                        *)
(***************************************************************************)
\* the test for a pending unblock task left out
ExpireCancelForgets(st, i) == st

\* lines 702-707: a pending unblock task is cancelled
ExpireCancel(st, i) ==
  IF st.ai[i].unblock_task
    THEN [ st EXCEPT !.ai[i].unblock_task = FALSE, !.num_blocked = @ - 1,
                     !.cancelled = Append(@, i) ]
    ELSE st

\* the address record is destroyed and the handle to it is kept
ExpireDeferKeepsAr(st, i) ==
  IF st.ai[i].ar # NULL
    THEN ATS_address_destroy([ st EXCEPT !.ai[i].expired = TRUE ], st.ai[i].ar)
    ELSE [ st EXCEPT !.ai[i].expired = TRUE ]

\* lines 708-717: a session is still attached
ExpireDefer(st, i) ==
  LET s1 == [ st EXCEPT !.ai[i].expired = TRUE ]
  IN  IF s1.ai[i].ar # NULL
        THEN [ ATS_address_destroy(s1, s1.ai[i].ar) EXCEPT !.ai[i].ar = NULL ]
        ELSE s1

\* lines 718-740: no session: remove from the map and free
ExpireRemove(st, i) ==
  LET s1 == [ st EXCEPT !.p2a = @ \ {i} ]
      s2 == IF s1.ai[i].ar # NULL
              THEN [ ATS_address_destroy(s1, s1.ai[i].ar) EXCEPT !.ai[i].ar = NULL ]
              ELSE s1
  IN  FreeAi(s2, i)

ExpireFound(st, i) ==
  IF i = NULL THEN [ st EXCEPT !.status = "abort" ]      \* GNUNET_assert (0)
  ELSE IF ExpireCancel(st, i).ai[i].session # NULL
    THEN ExpireDefer(ExpireCancel(st, i), i)
  ELSE ExpireRemove(ExpireCancel(st, i), i)

\* the states the call may end in
expire_address(st, address) ==
  { ExpireFound(st, i) : i \in find_ai_no_session(st, address) }

GST_ats_expire_address(address) ==
  /\ ats_status = "run"
  /\ UNCHANGED dhtvars
  /\ \E st \in expire_address(AtsCur, address) :
       AtsCommit(st, [ op |-> "expire_address", address |-> address,
                       freed |-> << >>, calls |-> << >> ])

(***************************************************************************)
(* GST_ats_add_inbound_address, GST_ats_add_address                        *)
(***************************************************************************)
AddRecord(st, address, session) ==
  LET s1 == ATS_address_add(st, address, session)
      i == Len(st.ai) + 1
  IN  [ s1 EXCEPT !.ai = Append(@, NewAddressInfo(address, session, Len(s1.ars))),
                  !.p2a = @ \cup {i} ]

GST_ats_add_inbound_address(address, session) ==
  /\ ats_status = "run"
  /\ UNCHANGED dhtvars
  /\ Len(ai) < MaxAi
  /\ Len(ars) < MaxAr
  /\ LET what == [ op |-> "add_inbound_address", address |-> address,
                   session |-> session, freed |-> << >>, calls |-> << >> ]
     IN  IF ~ IsInbound(address) \/ session = NULL
              \/ ~ find_ai_asserts(AtsCur, address, session)
           THEN AtsCommit([ AtsCur EXCEPT !.status = "abort" ], what)
         ELSE IF find_ai(AtsCur, address, session) # {NULL}
           THEN AtsCommit(AtsCur, what)                   \* GNUNET_break (0); return
         ELSE AtsCommit(AddRecord(AtsCur, address, session), what)

GST_ats_add_address(address) ==
  /\ ats_status = "run"
  /\ UNCHANGED dhtvars
  /\ Len(ai) < MaxAi
  /\ Len(ars) < MaxAr
  /\ LET what == [ op |-> "add_address", address |-> address,
                   freed |-> << >>, calls |-> << >> ]
     IN  IF IsInbound(address) \/ find_ai_no_session(AtsCur, address) # {NULL}
           THEN AtsCommit([ AtsCur EXCEPT !.status = "abort" ], what)
         ELSE AtsCommit(AddRecord(AtsCur, address, NULL), what)

(***************************************************************************)
(* GST_ats_new_session (address, session)                                  *)
(***************************************************************************)
NewSessionOn(st, i, session) ==
  LET s1 == [ st EXCEPT !.ai[i].session = session ]
  IN  IF s1.ai[i].ar # NULL THEN ATS_address_add_session(s1, s1.ai[i].ar, session)
                            ELSE s1

GST_ats_new_session(address, session) ==
  /\ ats_status = "run"
  /\ UNCHANGED dhtvars
  /\ LET what == [ op |-> "new_session", address |-> address, session |-> session,
                   freed |-> << >>, calls |-> << >> ]
     IN  \E i \in find_ai(AtsCur, address, NULL) :
           IF i = NULL
             THEN IF find_ai(AtsCur, address, session) = {NULL}
                       \/ ~ find_ai_asserts(AtsCur, address, session)
                    THEN AtsCommit([ AtsCur EXCEPT !.status = "abort" ], what)
                    ELSE AtsCommit(AtsCur, [ what EXCEPT !.op = "new_session_known" ])
             ELSE AtsCommit(NewSessionOn(AtsCur, i, session), what)

(***************************************************************************)
(* GST_ats_del_session (address, session)                                  *)
(***************************************************************************)
\* lines 558-584, for the record found; the set of states it may end in
DelSessionOn(st, i, address, session) ==
  LET s1 == [ st EXCEPT !.ai[i].session = NULL ]
      rec == s1.ai[i]
  IN  IF rec.ar = NULL
        THEN IF rec.expired \/ IsInbound(address)
               THEN expire_address(s1, address)
               ELSE {s1}
      ELSE IF DelSessionGone(s1, rec.ar)
        THEN expire_address([ ATS_address_del_session(s1, rec.ar)
                                EXCEPT !.ai[i].ar = NULL ], address)
      ELSE { ATS_address_del_session(s1, rec.ar) }

GST_ats_del_session(address, session) ==
  /\ ats_status = "run"
  /\ UNCHANGED dhtvars
  /\ LET what == [ op |-> "del_session", address |-> address, session |-> session,
                   record |-> NULL, freed |-> << >>, calls |-> << >> ]
     IN  IF session = NULL THEN AtsCommit(AtsCur, what)
         ELSE IF ~ find_ai_asserts(AtsCur, address, session)
           THEN AtsCommit([ AtsCur EXCEPT !.status = "abort" ], what)
         ELSE \E i \in find_ai(AtsCur, address, session) :
                IF i = NULL THEN AtsCommit(AtsCur, what)
                ELSE \E st \in DelSessionOn(AtsCur, i, address, session) :
                       AtsCommit(st, [ what EXCEPT !.record = i ])

(***************************************************************************)
(* GST_ats_block_address, unblock_address, GST_ats_block_reset             *)
(***************************************************************************)
\* lines 336-342: destroy session and address
BlockRelease(st, i, session) ==
  LET ar == st.ai[i].ar
  IN  IF session = NULL THEN ATS_address_destroy(st, ar)
      ELSE IF DelSessionGone(st, ar) THEN ATS_address_del_session(st, ar)
      ELSE ATS_address_destroy(ATS_address_del_session(st, ar), ar)

\* the address record is released and no unblock task is armed
BlockOnNoTimer(st, i, session) ==
  [ BlockRelease(st, i, session)
      EXCEPT !.ai[i].back_off = STD_BACKOFF(@),
             !.ai[i].ar = NULL,
             !.num_blocked = @ + 1 ]

\* lines 321-350 for the record found
BlockOn(st, i, session) ==
  [ BlockRelease(st, i, session)
      EXCEPT !.ai[i].back_off = STD_BACKOFF(@),
             !.ai[i].ar = NULL,
             !.ai[i].unblock_task = TRUE,
             !.num_blocked = @ + 1 ]

GST_ats_block_address(address, session) ==
  /\ ats_status = "run"
  /\ UNCHANGED dhtvars
  /\ LET what == [ op |-> "block_address", address |-> address, session |-> session,
                   record |-> NULL, freed |-> << >>, calls |-> << >> ]
     IN  \E i \in find_ai(AtsCur, address, session) :
           IF i = NULL \/ ~ find_ai_asserts(AtsCur, address, session)
             THEN AtsCommit([ AtsCur EXCEPT !.status = "abort" ], what)
           ELSE IF ai[i].ar = NULL
             THEN AtsCommit(AtsCur, [ what EXCEPT !.op = "block_address_blocked",
                                                  !.record = i ])
           ELSE AtsCommit(BlockOn(AtsCur, i, session), [ what EXCEPT !.record = i ])

\* the scheduler runs the unblock task of record i
unblock_address(i) ==
  /\ ats_status = "run"
  /\ UNCHANGED dhtvars
  /\ i \in 1 .. Len(ai)
  /\ ai[i].unblock_task
  /\ Len(ars) < MaxAr
  /\ LET what == [ op |-> "unblock_address", record |-> i,
                   freed |-> << >>, calls |-> << >> ]
         s1 == ATS_address_add([ AtsCur EXCEPT !.ai[i].unblock_task = FALSE ],
                               ai[i].address, ai[i].session)
     IN  IF ai[i].freed > 0
           THEN AtsCommit([ AtsCur EXCEPT !.status = "uaf" ], what)
           ELSE AtsCommit([ s1 EXCEPT !.ai[i].ar = Len(s1.ars),
                                      !.num_blocked = @ - 1 ], what)

\* a reset that leaves the back-off as it is
BlockResetKeeps(st, i) == st

\* lines 374-376: reset the back-off
BlockResetOn(st, i) == [ st EXCEPT !.ai[i].back_off = 0 ]

GST_ats_block_reset(address, session) ==
  /\ ats_status = "run"
  /\ UNCHANGED dhtvars
  /\ LET what == [ op |-> "block_reset", address |-> address, session |-> session,
                   record |-> NULL, freed |-> << >>, calls |-> << >> ]
     IN  \E i \in find_ai(AtsCur, address, session) :
           IF ~ find_ai_asserts(AtsCur, address, session)
             THEN AtsCommit([ AtsCur EXCEPT !.status = "abort" ], what)
           ELSE IF i = NULL THEN AtsCommit(AtsCur, what)
           ELSE AtsCommit(BlockResetOn(AtsCur, i), [ what EXCEPT !.record = i ])

(***************************************************************************)
(* GST_ats_done: destroy_ai on every record                                *)
(***************************************************************************)
destroy_ai(st, i) ==
  LET s1 == [ st EXCEPT !.p2a = @ \ {i} ]
      s2 == ExpireCancel(s1, i)
      s3 == IF s2.ai[i].ar # NULL
              THEN [ ATS_address_destroy(s2, s2.ai[i].ar) EXCEPT !.ai[i].ar = NULL ]
              ELSE s2
  IN  FreeAi(s3, i)

RECURSIVE DestroyAll(_)
DestroyAll(st) ==
  IF st.p2a = {} THEN st
  ELSE DestroyAll(destroy_ai(st, CHOOSE i \in st.p2a : \A j \in st.p2a : i <= j))

GST_ats_done ==
  /\ ats_status = "run"
  /\ UNCHANGED dhtvars
  /\ AtsCommit([ DestroyAll(AtsCur) EXCEPT !.status = "done" ], AtsDid("done"))

(***************************************************************************)
(* The specifications.                                                     *)
(***************************************************************************)
\* the trail identifiers a received message may carry
AnyId == RemoteIds \cup { p[1] : p \in trail_map }

\* the TrailRoute messages a friend may send: the size field is too small for
\* the fixed part, ends before the payload header, is exact, or is too large
ReceivedRouteMsgs ==
  { [ type |-> "TRAIL_ROUTE", record_path |-> rp, path_length |-> Len(path),
      path |-> path, trail_id |-> id, payload_type |-> pt, payload_size |-> ps,
      size |-> sz ] :
      rp \in {0, 1},
      path \in UNION { [ 1 .. n -> {1} ] : n \in 0 .. MaxPathLen },
      id \in AnyId,
      pt \in { "SUCCESSOR_FIND", "GET", "OTHER" },
      ps \in { SizeofMessageHeader, SizeofFindSuccessorMessage },
      sz \in { SizeofMessageHeader,
               SizeofTrailRouteMessage + SizeofPeerIdentity,
               SizeofTrailRouteMessage + SizeofMessageHeader,
               SizeofTrailRouteMessage + SizeofPeerIdentity + SizeofFindSuccessorMessage } }

DhtNext ==
  \/ AdvanceTime
  \/ \E peer \in Peers \cup {my_identity} : handle_core_connect(peer)
  \/ \E peer \in Peers \cup {my_identity} : handle_core_disconnect(peer)
  \/ do_random_walk
  \/ trail_timeout_callback
  \/ \E peer \in Peers, id \in AnyId : handle_dht_p2p_trail_destroy(peer, id)
  \/ \E peer \in Peers, id \in AnyId, loc \in Locations :
       handle_dht_p2p_random_walk_response(peer, id, loc)

RouteNext ==
  \/ \E peer \in Peers : handle_core_connect(peer)
  \/ do_random_walk
  \/ \E peer \in Peers, hops \in 0 .. MaxHops, id \in RemoteIds, nse \in 0 .. MaxNse :
       handle_dht_p2p_random_walk(peer, hops, 0, id, nse)
  \/ \E peer \in Peers, m \in ReceivedRouteMsgs : handle_dht_p2p_trail_route(peer, m)

\* the expiry task among walks started here and walks relayed
ExpireNext ==
  \/ AdvanceTime
  \/ \E peer \in Peers : handle_core_connect(peer)
  \/ do_random_walk
  \/ \E peer \in Peers, hops \in 0 .. MaxHops, id \in RemoteIds, nse \in 0 .. MaxNse :
       handle_dht_p2p_random_walk(peer, hops, 0, id, nse)
  \/ trail_timeout_callback

\* TrailDestroy messages among walks started here and walks relayed
DestroyNext ==
  \/ AdvanceTime
  \/ \E peer \in Peers : handle_core_connect(peer)
  \/ do_random_walk
  \/ \E peer \in Peers, hops \in 0 .. MaxHops, id \in RemoteIds, nse \in 0 .. MaxNse :
       handle_dht_p2p_random_walk(peer, hops, 0, id, nse)
  \/ \E peer \in Peers, id \in AnyId : handle_dht_p2p_trail_destroy(peer, id)

\* the layers a received RANDOM_WALK may name: those of the finger tables
\* and the two values above them
ReceivedLayers == 0 .. (NUMBER_LAYERED_ID + 1)

\* a walk started here and walks relayed for friends, in every layer
WalkNext ==
  \/ \E peer \in Peers : handle_core_connect(peer)
  \/ do_random_walk
  \/ \E peer \in Peers, hops \in 0 .. MaxHops, layer \in ReceivedLayers,
        id \in RemoteIds, nse \in 0 .. MaxNse :
       handle_dht_p2p_random_walk(peer, hops, layer, id, nse)
  \/ \E peer \in Peers, id \in AnyId, loc \in Locations :
       handle_dht_p2p_random_walk_response(peer, id, loc)

\* responses among walks started here, walks relayed and trails destroyed
ResponseNext ==
  \/ AdvanceTime
  \/ \E peer \in Peers : handle_core_connect(peer)
  \/ do_random_walk
  \/ \E peer \in Peers, id \in RemoteIds :
       handle_dht_p2p_random_walk(peer, MaxHops, 0, id, 0)
  \/ \E peer \in Peers, id \in AnyId : handle_dht_p2p_trail_destroy(peer, id)
  \/ \E peer \in Peers, id \in AnyId, loc \in Locations :
       handle_dht_p2p_random_walk_response(peer, id, loc)

\* the longest path a TrailRoute message with a bare header as payload can
\* carry: the size field has 16 bits
EdgePathLen ==
  (GNUNET_SERVER_MAX_MESSAGE_SIZE - 1 - SizeofTrailRouteMessage - SizeofMessageHeader)
    \div SizeofPeerIdentity

\* well-formed TrailRoute messages with short paths and with paths near the
\* longest a message can carry
ReceivedPathMsgs ==
  { m \in { TrailRouteMsg(rp, [ i \in 1 .. n |-> 1 ], id, "GET", ps) :
              rp \in {0, 1},
              n \in (0 .. MaxPathLen) \cup ((EdgePathLen - 3) .. EdgePathLen),
              id \in AnyId,
              ps \in { SizeofMessageHeader, SizeofFindSuccessorMessage } } :
      m.size < GNUNET_SERVER_MAX_MESSAGE_SIZE }

\* TrailRoute messages with recorded paths along relayed walks
PathNext ==
  \/ \E peer \in Peers : handle_core_connect(peer)
  \/ \E peer \in Peers, hops \in 0 .. MaxHops, id \in RemoteIds, nse \in 0 .. MaxNse :
       handle_dht_p2p_random_walk(peer, hops, 0, id, nse)
  \/ \E peer \in Peers, m \in ReceivedPathMsgs : handle_dht_p2p_trail_route(peer, m)

AtsNext ==
  \/ \E a \in Addresses : \E s \in SessionsOf(a) : GST_ats_add_inbound_address(a, s)
  \/ \E a \in Addresses : GST_ats_add_address(a)
  \/ \E a \in Addresses : \E s \in SessionsOf(a) : GST_ats_new_session(a, s)
  \/ \E a \in Addresses : \E s \in SessionsOf(a) \cup {NULL} : GST_ats_del_session(a, s)
  \/ \E a \in Addresses : \E s \in SessionsOf(a) \cup {NULL} : GST_ats_block_address(a, s)
  \/ \E a \in Addresses : \E s \in SessionsOf(a) \cup {NULL} : GST_ats_block_reset(a, s)
  \/ \E a \in Addresses : GST_ats_expire_address(a)
  \/ \E i \in 1 .. MaxAi : unblock_address(i)
  \/ GST_ats_done

\* every pending unblock task can still be given an address record when it
\* fires: the calls that take a record or arm a timer leave one for it
RoomForTimers == Len(ars) + num_blocked < MaxAr

\* the ATS address bookkeeping with the scheduler running the unblock tasks
AtsTimerNext ==
  \/ /\ RoomForTimers
     /\ \E a \in Addresses : \E s \in SessionsOf(a) : GST_ats_add_inbound_address(a, s)
  \/ /\ RoomForTimers
     /\ \E a \in Addresses : GST_ats_add_address(a)
  \/ \E a \in Addresses : \E s \in SessionsOf(a) : GST_ats_new_session(a, s)
  \/ \E a \in Addresses : \E s \in SessionsOf(a) \cup {NULL} : GST_ats_del_session(a, s)
  \/ /\ RoomForTimers
     /\ \E a \in Addresses : \E s \in SessionsOf(a) \cup {NULL} : GST_ats_block_address(a, s)
  \/ \E a \in Addresses : GST_ats_expire_address(a)
  \/ \E i \in 1 .. MaxAi : unblock_address(i)
  \/ GST_ats_done

Init == DhtInit /\ AtsInit

\* the trail and finger core of one peer
Spec == Init /\ [][DhtNext]_vars

\* the trail message router
SpecRoute == Init /\ [][RouteNext]_vars

\* trail expiration
SpecExpire == Init /\ [][ExpireNext]_vars

\* the ATS address bookkeeping
SpecAts == Init /\ [][AtsNext]_vars

\* the ATS address bookkeeping under a scheduler that runs every task that
\* stays pending (GNUNET_SCHEDULER_add_delayed: the delay is finite)
SpecAtsTimer ==
  Init /\ [][AtsTimerNext]_vars /\ \A i \in 1 .. MaxAi : WF_vars(unblock_address(i))

SpecDestroy == Init /\ [][DestroyNext]_vars

\* the random walk engine
SpecWalk == Init /\ [][WalkNext]_vars

\* path recording by the trail message router
SpecPath == Init /\ [][PathNext]_vars

\* the handling of RandomWalkResponse
SpecResponse == Init /\ [][ResponseNext]_vars

(***************************************************************************)
(* Properties of the trail table (delete_trail).                           *)
(***************************************************************************)
\* is trail t still linked from some friend's list, the id map or the heap?
InLists(t) == \E f \in Peers : t \in Range(pred_list[f]) \/ t \in Range(succ_list[f])

InMap(t) == \E p \in trail_map : p[2] = t

InSlot(t) ==
  \E l \in Layers : \E i \in 1 .. Len(fingers[l].fingers) : fingers[l].fingers[i].trail = t

\* C1: after delete_trail (T, inform_pred, inform_succ) has returned, T is in
\* no friend's pred or succ list, is not reachable from the id map under
\* either id, is not in the expiration heap, and no finger slot holds it.
DeleteTrailComplete ==
  \A k \in 1 .. Len(last.deletes) :
    last.deletes[k].returned =>
      /\ ~ InLists(last.deletes[k].trail)
      /\ ~ InMap(last.deletes[k].trail)
      /\ last.deletes[k].trail \notin trail_heap
      /\ ~ InSlot(last.deletes[k].trail)

\* a call of delete_trail returned
DeleteTrailReturned ==
  \E k \in 1 .. Len(last.deletes) : last.deletes[k].returned

\* C2: no trail is torn down twice: a freed trail is never found again by a
\* lookup of one of its ids nor by a walk over a list or the heap, no handler
\* works on a freed trail, and number_valid_fingers counts the fingers held.
NoSecondTeardown ==
  /\ status # "uaf"
  /\ \A t \in 1 .. Len(trails) :
       trails[t].freed => ~ InMap(t) /\ ~ InLists(t) /\ t \notin trail_heap
  /\ \A l \in Layers :
       fingers[l].number_valid_fingers =
         Cardinality({ i \in 1 .. Len(fingers[l].fingers) :
                         fingers[l].fingers[i].trail # NULL })

(***************************************************************************)
(* Properties of the expiry task.                                          *)
(***************************************************************************)
\* a TrailDestroy message with trail id `id' was handed to friend f's queue
\* by the last handler
DestroySent(f, id) ==
  \E j \in 1 .. Len(last.sent) :
    /\ last.sent[j].msg.type = "TRAIL_DESTROY"
    /\ last.sent[j].to = f
    /\ last.sent[j].msg.trail_id = id

\* C7: the expiry task tears trails down in the order of their deadlines: a
\* run of the task ends with the process alive, every trail it took was torn
\* down completely, had reached its expiration time and had the least
\* expiration time of the heap, and the predecessor and the successor the
\* trail has were each sent a TrailDestroy with the id of their side.
ExpirationOrder ==
  last.op = "trail_timeout" =>
    /\ status = "run"
    /\ \A k \in 1 .. Len(last.deletes) :
         /\ last.deletes[k].returned
         /\ last.deletes[k].expiration_time <= now
         /\ last.deletes[k].heap_min = last.deletes[k].expiration_time
         /\ trails[last.deletes[k].trail].pred # NULL
              => DestroySent(trails[last.deletes[k].trail].pred,
                             trails[last.deletes[k].trail].pred_id)
         /\ trails[last.deletes[k].trail].succ # NULL
              => DestroySent(trails[last.deletes[k].trail].succ,
                             trails[last.deletes[k].trail].succ_id)

\* the expiry task tore down the earliest trail and left a later one in the
\* heap
ExpirationOrderWitness ==
  /\ last.op = "trail_timeout"
  /\ \E k \in 1 .. Len(last.deletes) :
       /\ last.deletes[k].returned
       /\ \E u \in trail_heap :
            trails[u].expiration_time > last.deletes[k].expiration_time

(***************************************************************************)
(* Properties of the random walk engine.                                   *)
(***************************************************************************)
\* C8: a random walk that finds its slot occupied tears down the old finger's
\* trail, informing the successor only, and then installs its own finger in
\* the slot; the walk completes (the assertion that the slot is empty holds)
\* and the table holds as many fingers as it counts.
FingerSlotReuse ==
  last.op = "random_walk" =>
    /\ status = "run"
    /\ fingers[last.layer].fingers[last.slot + 1].trail = last.trail
    /\ fingers[last.layer].number_valid_fingers <= DesiredFingerArraySize
    /\ IF last.old = NULL
         THEN last.deletes = << >>
         ELSE /\ Len(last.deletes) = 1
              /\ last.deletes[1].trail = last.old
              /\ ~ last.deletes[1].inform_pred
              /\ last.deletes[1].inform_succ
              /\ last.deletes[1].returned

\* a walk came to a slot that held a finger
FingerSlotReuseReached == last.op = "random_walk" /\ last.old # NULL

\* C9: when a RandomWalkResponse arrives for a live origin trail whose slot
\* still holds its finger, the finger's destination is the location of the
\* response and the finger is valid.
FingerSetup ==
  ( /\ last.op = "random_walk_response"
    /\ status = "run"
    /\ last.trail # NULL
    /\ ~ trails[last.trail].freed
    /\ trails[last.trail].pred = NULL
    /\ trails[last.trail].ft # NULL
    /\ Slot(fingers[trails[last.trail].ft], trails[last.trail].finger_off).trail
         = last.trail )
  => /\ Slot(fingers[trails[last.trail].ft], trails[last.trail].finger_off).valid
     /\ Slot(fingers[trails[last.trail].ft], trails[last.trail].finger_off).destination
          = last.location

(***************************************************************************)
(* Properties of the trail message router.                                 *)
(***************************************************************************)
\* the three ways a TrailRoute message is malformed
Malformed(m) ==
  \/ m.size < SizeofTrailRouteMessage
  \/ m.size < SizeofTrailRouteMessage + m.path_length * SizeofPeerIdentity
                + SizeofMessageHeader
  \/ m.size # SizeofTrailRouteMessage + m.path_length * SizeofPeerIdentity
                + m.payload_size

\* C10: a malformed TrailRoute message is dropped: nothing is sent, no
\* handler is invoked, and no trail, friend or finger state changes.
MalformedRouteDropped ==
  [][ (last'.op = "trail_route" /\ Malformed(last'.msg)) =>
        /\ last'.outcome = "dropped"
        /\ last'.sent = << >>
        /\ UNCHANGED << status, friends_peermap, pred_list, succ_list, trails,
                        trail_map, trail_heap, fingers >> ]_vars

\* a message for a known trail was dropped for its size alone
MalformedRouteWitness ==
  /\ last.op = "trail_route"
  /\ Malformed(last.msg)
  /\ last.msg.size >= SizeofTrailRouteMessage + last.msg.path_length * SizeofPeerIdentity
                        + SizeofMessageHeader
  /\ MapContains(trail_map, last.msg.trail_id)
  /\ last.outcome = "dropped"

(***************************************************************************)
(* Properties of the ATS address bookkeeping.                              *)
(***************************************************************************)
\* C3: every AddressInfo in the map has exactly one of an ATS address record
\* (ar) and a pending unblock task.
AddressInfoExclusive ==
  \A i \in p2a : (ai[i].ar # NULL) # ai[i].unblock_task

\* C4: expire_address on an inbound address whose record still has its
\* session leaves the record in the map, marked expired and not freed; the
\* del_session that follows for such a record removes it from the map and
\* frees it once.
DeferredRemoval ==
  [][ /\ ats_last'.op = "expire_address" =>
           \A i \in p2a :
             ( /\ ai[i].address = ats_last'.address
               /\ IsInbound(ai[i].address)
               /\ ai[i].session # NULL )
             => /\ ats_status' = "run"
                /\ i \in p2a'
                /\ ai'[i].expired
                /\ ai'[i].freed = 0
      /\ ( /\ ats_last'.op = "del_session"
           /\ ats_last'.record # NULL
           /\ IsInbound(ats_last'.address)
           /\ ai[ats_last'.record].expired )
         => /\ ats_status' = "run"
            /\ ats_last'.record \notin p2a'
            /\ ai'[ats_last'.record].freed = 1 ]_vars

\* C5: after del_session (address, session) found a record, the
\* expire_address (address) that follows completes and leaves that record
\* out of the map and freed once.
DestructionOrderIndependent ==
  [][ ( /\ ats_last.op = "del_session"
        /\ ats_last.record # NULL
        /\ ats_last'.op = "expire_address"
        /\ ats_last'.address = ats_last.address )
      => /\ ats_status' = "run"
         /\ ats_last.record \notin p2a'
         /\ ai'[ats_last.record].freed = 1 ]_vars

\* C6: no call but block_reset lowers a record's back_off; block_reset sets
\* it to zero; block_address on a blocked record changes no record and not
\* the counter of blocked addresses.
BackoffMonotone ==
  [][ /\ ats_last'.op # "block_reset" =>
           \A i \in 1 .. Len(ai) : ai'[i].back_off >= ai[i].back_off
      /\ (ats_last'.op = "block_reset" /\ ats_last'.record # NULL) =>
           ai'[ats_last'.record].back_off = 0
      /\ ats_last'.op = "block_address_blocked" =>
           ai' = ai /\ num_blocked' = num_blocked ]_vars

\* a record was blocked again, with a longer back-off than the first time
BackoffWitness ==
  /\ ats_last.op = "block_address"
  /\ ats_last.record # NULL
  /\ ai[ats_last.record].back_off > STD_BACKOFF(0)
  /\ ai[ats_last.record].unblock_task

(***************************************************************************)
(* Properties of the trail indexes.                                        *)
(***************************************************************************)
\* C11: between events, every live trail is in the id map under pred_id if
\* it has a predecessor and under succ_id if it has a successor, is in its
\* predecessor's pred list and its successor's succ list, and is in the
\* heap; and every trail the id map, a list or the heap leads to is live.
TrailIndexing ==
  status = "run" =>
    \A t \in 1 .. Len(trails) :
      /\ ~ trails[t].freed =>
           /\ trails[t].pred # NULL =>
                /\ << trails[t].pred_id, t >> \in trail_map
                /\ t \in Range(pred_list[trails[t].pred])
           /\ trails[t].succ # NULL =>
                /\ << trails[t].succ_id, t >> \in trail_map
                /\ t \in Range(succ_list[trails[t].succ])
           /\ t \in trail_heap
      /\ (InMap(t) \/ InLists(t) \/ t \in trail_heap) => ~ trails[t].freed

(***************************************************************************)
(* Properties of handle_core_disconnect.                                   *)
(***************************************************************************)
\* C12: after handle_core_disconnect (F) has dealt with a friend F it
\* returns: F is not in the friend map, no live trail has F as predecessor
\* or successor, for every trail it tore down a TrailDestroy went to the
\* friend on the other side of F (if there is one), and none went to F.
FriendDisconnect ==
  last.op = "disconnect" =>
    /\ status = "run"
    /\ last.peer \notin friends_peermap
    /\ \A t \in 1 .. Len(trails) :
         ~ trails[t].freed => trails[t].pred # last.peer /\ trails[t].succ # last.peer
    /\ \A k \in 1 .. Len(last.deletes) :
         \A f \in { trails[last.deletes[k].trail].pred,
                    trails[last.deletes[k].trail].succ } \ { NULL, last.peer } :
           \E j \in 1 .. Len(last.sent) :
             last.sent[j].to = f /\ last.sent[j].msg.type = "TRAIL_DESTROY"
    /\ \A j \in 1 .. Len(last.sent) : last.sent[j].to # last.peer

\* a friend that had a trail disconnected
FriendDisconnectReached == last.op = "disconnect" /\ last.deletes # << >>

\* C17: handle_core_disconnect terminates by emptying the lists: every
\* iteration of its two loops returns from delete_trail with the head trail
\* gone from the disconnecting friend's lists, and the handler ends with
\* both lists empty.
DrainLoopsEnd ==
  last.op = "disconnect" =>
    /\ \A k \in 1 .. Len(last.deletes) :
         /\ last.deletes[k].returned
         /\ last.deletes[k].trail \notin Range(succ_list[last.peer])
         /\ last.deletes[k].trail \notin Range(pred_list[last.peer])
    /\ succ_list[last.peer] = << >>
    /\ pred_list[last.peer] = << >>

(***************************************************************************)
(* Properties of handle_core_connect.                                      *)
(***************************************************************************)
\* C13: a connect notification for this peer's own identity or for a peer
\* already in the friend map is ignored (friend map, trail lists, trail
\* table and random walk task unchanged); so the friend map never holds
\* this peer's identity and a peer is only added when it is not in it.
ConnectRejection ==
  [][ /\ ( /\ last'.op \in { "connect", "connect_ignored" }
           /\ (last'.peer = my_identity \/ last'.peer \in friends_peermap) )
         => /\ last'.op = "connect_ignored"
            /\ UNCHANGED << status, friends_peermap, pred_list, succ_list, trails,
                            trail_map, trail_heap, fingers, random_walk_task >>
      /\ my_identity \notin friends_peermap' ]_vars

\* a connect for a friend that has a trail was ignored
ConnectRejectionWitness ==
  /\ last.op = "connect_ignored"
  /\ last.peer \in friends_peermap
  /\ succ_list[last.peer] # << >>

(***************************************************************************)
(* Properties of GST_ats_new_session.                                      *)
(***************************************************************************)
\* C14: GST_ats_new_session (address, session) called while a record with
\* that address and that session is in the map changes no record, makes no
\* call to ATS and raises no error.
NewSessionIdempotent ==
  [][ ( /\ ats_last'.op \in { "new_session", "new_session_known" }
        /\ \E i \in p2a : /\ ai[i].address = ats_last'.address
                           /\ ai[i].session = ats_last'.session )
      => /\ ats_status' = "run"
         /\ ai' = ai
         /\ p2a' = p2a
         /\ ars' = ars
         /\ num_blocked' = num_blocked
         /\ ats_last'.calls = << >> ]_vars

(***************************************************************************)
(* Properties of the finger tables.                                        *)
(***************************************************************************)
\* the number of slots of layer l that hold a finger
FingersHeld(l) ==
  Cardinality({ i \in 1 .. Len(fingers[l].fingers) : fingers[l].fingers[i].trail # NULL })

\* C15: in every state reached without the use of a freed trail,
\* number_valid_fingers of every finger table is at least zero and at most
\* the number of non-null entries of its fingers array.
ValidFingersBounded ==
  status # "uaf" =>
    \A l \in Layers :
      /\ fingers[l].number_valid_fingers >= 0
      /\ fingers[l].number_valid_fingers <= FingersHeld(l)

\* a teardown has freed a finger of a table that still holds another one
ValidFingersWitness ==
  /\ status = "run"
  /\ \E k \in 1 .. Len(last.deletes) :
       /\ last.deletes[k].returned
       /\ trails[last.deletes[k].trail].ft # NULL
       /\ FingersHeld(trails[last.deletes[k].trail].ft) > 0
       /\ FingersHeld(trails[last.deletes[k].trail].ft)
            < fingers[trails[last.deletes[k].trail].ft].finger_array_size

(***************************************************************************)
(* Properties of the unblock timer.                                        *)
(***************************************************************************)
\* C16: GST_ats_expire_address cancels the pending unblock task of the
\* record it works on and decrements num_blocked in the same step (and
\* leaves task and counter alone if none is pending); no freed record has
\* an unblock task pending, and the task never runs on a record that was
\* freed or removed from the map.
ExpireCancelsTimer ==
  [][ /\ (ats_last'.op = "expire_address" /\ ats_status' = "run") =>
           /\ num_blocked' = num_blocked - Len(ats_last'.cancelled)
           /\ \A k \in 1 .. Len(ats_last'.cancelled) :
                /\ ai[ats_last'.cancelled[k]].unblock_task
                /\ ~ ai'[ats_last'.cancelled[k]].unblock_task
           /\ \A i \in p2a :
                ai[i].address = ats_last'.address =>
                  (ai'[i].unblock_task => ai'[i] = ai[i])
      /\ \A i \in 1 .. Len(ai') : ai'[i].freed > 0 => ~ ai'[i].unblock_task
      /\ ats_last'.op = "unblock_address" =>
           /\ ai[ats_last'.record].freed = 0
           /\ ats_last'.record \in p2a ]_vars

\* the expiration of a blocked address removed and freed its record
ExpireCancelsTimerWitness ==
  /\ ats_last.op = "expire_address"
  /\ ats_last.cancelled # << >>
  /\ ats_last.freed = ats_last.cancelled

(***************************************************************************)
(* Properties of the TrailDestroy messages.                                *)
(***************************************************************************)
\* C18: the TrailDestroy that delete_trail sends to a trail's successor
\* carries the trail's succ_id, and the one it sends to the predecessor
\* carries the pred_id.
DestroyCarriesSideId ==
  \A k \in 1 .. Len(last.deletes) :
    /\ (last.deletes[k].inform_succ /\ trails[last.deletes[k].trail].succ # NULL)
         => DestroySent(trails[last.deletes[k].trail].succ,
                        trails[last.deletes[k].trail].succ_id)
    /\ (last.deletes[k].inform_pred /\ trails[last.deletes[k].trail].pred # NULL)
         => DestroySent(trails[last.deletes[k].trail].pred,
                        trails[last.deletes[k].trail].pred_id)

\* delete_trail informed a successor
DestroyCarriesSideIdReached ==
  \E k \in 1 .. Len(last.deletes) :
    last.deletes[k].inform_succ /\ trails[last.deletes[k].trail].succ # NULL

\* C19: a TrailDestroy from peer X for a live trail tears the trail down
\* and passes the teardown on to the other side only: a TrailDestroy goes to
\* the predecessor (if any) when X is the successor, to the successor (if
\* any) when X is the predecessor, and none goes back to X.
DestroyPassedOn ==
  ( /\ last.op = "trail_destroy"
    /\ last.trail # NULL
    /\ last.deletes # << >> )
  => /\ status = "run"
     /\ last.deletes[1].returned
     /\ trails[last.trail].freed
     /\ (last.peer = trails[last.trail].succ /\ trails[last.trail].pred # NULL)
          => \E j \in 1 .. Len(last.sent) :
               /\ last.sent[j].to = trails[last.trail].pred
               /\ last.sent[j].msg.type = "TRAIL_DESTROY"
     /\ (last.peer = trails[last.trail].pred /\ trails[last.trail].succ # NULL)
          => \E j \in 1 .. Len(last.sent) :
               /\ last.sent[j].to = trails[last.trail].succ
               /\ last.sent[j].msg.type = "TRAIL_DESTROY"
     /\ \A j \in 1 .. Len(last.sent) : last.sent[j].to # last.peer

\* a TrailDestroy came from the predecessor of a trail that has a successor
DestroyPassedOnReached ==
  /\ last.op = "trail_destroy"
  /\ last.trail # NULL
  /\ last.deletes # << >>
  /\ last.peer = trails[last.trail].pred
  /\ trails[last.trail].succ # NULL

(***************************************************************************)
(* Properties of the task handles.                                         *)
(***************************************************************************)
\* C20: between events random_walk_task is non-null exactly when the friend
\* map is non-empty, and the disconnect of the last friend finds a task to
\* cancel.
RandomWalkTaskScheduled ==
  [][ /\ status' = "run" => ((random_walk_task' # NULL) <=> (friends_peermap' # {}))
      /\ (last'.op = "disconnect" /\ status' = "run" /\ friends_peermap' = {})
           => random_walk_task # NULL ]_vars

\* the last friend disconnected and the task was cancelled
RandomWalkTaskWitness ==
  /\ last.op = "disconnect"
  /\ status = "run"
  /\ friends_peermap = {}
  /\ random_walk_task = NULL

\* C21: between events the expiry task is scheduled whenever the heap is
\* not empty; a run of the task ends with the process alive, no trail left
\* in the heap whose deadline has passed, the task scheduled for the least
\* deadline left if the heap is not empty and its handle null otherwise.
ExpiryTaskScheduled ==
  /\ (status = "run" /\ trail_heap # {}) => trail_timeout_task # NULL
  /\ last.op = "trail_timeout" =>
       /\ status = "run"
       /\ \A t \in trail_heap : trails[t].expiration_time > now
       /\ IF trail_heap = {}
            THEN trail_timeout_task = NULL
            ELSE \A t \in trail_heap : trail_timeout_task <= trails[t].expiration_time

\* the expiry task ran on a heap that held an expired trail
ExpiryTaskRan == last.op = "trail_timeout" /\ last.deletes # << >>

WalkDecision ==
  (last.op = "random_walk_msg" /\ last.ret = "OK") =>
    /\ status = "run"
    /\ Len(last.sent) = 1
    /\ IF last.hops_taken > last.nse
         THEN /\ trails[last.trail].succ = NULL
              /\ last.sent[1].to = last.peer
              /\ last.sent[1].msg.type = "RANDOM_WALK_RESPONSE"
              /\ last.sent[1].msg.trail_id = last.trail_id
         ELSE /\ trails[last.trail].succ \in friends_peermap
              /\ trails[last.trail].succ_id # last.trail_id
              /\ << trails[last.trail].succ_id, last.trail >> \in trail_map
              /\ last.sent[1] =
                   [ to |-> trails[last.trail].succ,
                     msg |-> RandomWalkMsg(last.hops_taken + 1, last.layer,
                                           trails[last.trail].succ_id) ]

\* a RANDOM_WALK arrived whose hop count had just reached the estimate
WalkDecisionReached ==
  /\ last.op = "random_walk_msg"
  /\ last.ret = "OK"
  /\ last.hops_taken = last.nse
  /\ last.hops_taken > 0

\* C24: a RANDOM_WALK whose layer is not one of 0 .. NUMBER_LAYERED_ID - 1
\* is failed: the handler returns GNUNET_SYSERR, allocates no trail, leaves
\* the id map, the heap, the friends' lists and the expiry task as they
\* were, and sends no message.
LayerRangeCheck ==
  [][ (last'.op = "random_walk_msg" /\ last'.layer \notin Layers)
      => /\ last'.ret = "SYSERR"
         /\ last'.sent = << >>
         /\ UNCHANGED << status, trails, trail_map, trail_heap, pred_list,
                         succ_list, trail_timeout_task >> ]_vars

\* a RANDOM_WALK for the layer NUMBER_LAYERED_ID was handled
LayerRangeCheckReached ==
  last.op = "random_walk_msg" /\ last.layer = NUMBER_LAYERED_ID

(***************************************************************************)
(* Properties of the RandomWalkResponse handler.                           *)
(***************************************************************************)
\* C25: a RandomWalkResponse whose trail id belongs to no trail, or to a
\* trail that was deleted before, is ignored: nothing is sent, nothing
\* changes and the process runs on.  A response for a trail with a
\* predecessor sends exactly one RandomWalkResponse, with the location
\* received and the trail's predecessor-side id, to the predecessor, and
\* changes no trail, finger or friend state.
ResponseAwayFromOrigin ==
  [][ last'.op = "random_walk_response" =>
        IF last'.trail = NULL \/ trails[last'.trail].freed
          THEN /\ status' = "run"
               /\ last'.sent = << >>
               /\ UNCHANGED << friends_peermap, pred_list, succ_list, trails,
                               trail_map, trail_heap, fingers >>
          ELSE trails[last'.trail].pred # NULL =>
                 /\ status' = "run"
                 /\ last'.sent =
                      << [ to |-> trails[last'.trail].pred,
                           msg |-> RandomWalkResponseMsg(trails[last'.trail].pred_id,
                                                         last'.location) ] >>
                 /\ UNCHANGED << friends_peermap, pred_list, succ_list, trails,
                                 trail_map, trail_heap, fingers >> ]_vars

\* a response arrived for a trail id whose trail had been deleted
ResponseForDeletedTrail ==
  /\ last.op = "random_walk_response"
  /\ last.trail # NULL
  /\ trails[last.trail].freed

(***************************************************************************)
(* Properties of the trail message router.                                 *)
(***************************************************************************)
\* the trail a routed message's id is indexed under
RoutedTrail == MapGet(trail_map, last.msg.trail_id)

\* the last handler forwarded the routed message to friend f under id, and
\* sent nothing else
ForwardedTo(f, id) ==
  /\ last.outcome = "forwarded"
  /\ Len(last.sent) = 1
  /\ last.sent[1].to = f
  /\ last.sent[1].msg.type = "TRAIL_ROUTE"
  /\ last.sent[1].msg.trail_id = id

\* the last handler passed the routed message to the local dispatch and sent
\* nothing
DispatchedLocally ==
  /\ last.outcome \in { "handled", "bad_size", "no_handler" }
  /\ last.sent = << >>

\* C26: a well-formed TrailRoute message that arrives from a trail's
\* predecessor under the predecessor-side id is sent to the successor under
\* the successor-side id, or dispatched locally when the trail has no
\* successor; one that arrives from the successor under the successor-side
\* id is sent to the predecessor under the predecessor-side id, or
\* dispatched locally when the trail has no predecessor.  This holds also
\* for a trail whose predecessor and successor are the same friend.
RouteDirection ==
  ( /\ last.op = "trail_route"
    /\ last.outcome # "dropped"
    /\ RoutedTrail # NULL
    /\ ~ trails[RoutedTrail].freed )
  => /\ ( /\ trails[RoutedTrail].pred # NULL
          /\ last.peer = trails[RoutedTrail].pred
          /\ last.msg.trail_id = trails[RoutedTrail].pred_id )
        => IF trails[RoutedTrail].succ # NULL
             THEN ForwardedTo(trails[RoutedTrail].succ, trails[RoutedTrail].succ_id)
             ELSE DispatchedLocally
     /\ ( /\ trails[RoutedTrail].succ # NULL
          /\ last.peer = trails[RoutedTrail].succ
          /\ last.msg.trail_id = trails[RoutedTrail].succ_id )
        => IF trails[RoutedTrail].pred # NULL
             THEN ForwardedTo(trails[RoutedTrail].pred, trails[RoutedTrail].pred_id)
             ELSE DispatchedLocally

\* a message arrived from the successor side of a trail whose predecessor
\* and successor are the same friend
RouteDirectionSameFriend ==
  /\ last.op = "trail_route"
  /\ last.outcome # "dropped"
  /\ RoutedTrail # NULL
  /\ trails[RoutedTrail].pred # NULL
  /\ trails[RoutedTrail].succ = trails[RoutedTrail].pred
  /\ last.peer = trails[RoutedTrail].succ
  /\ last.msg.trail_id = trails[RoutedTrail].succ_id

\* C27: a TrailRoute message that is forwarded goes out with its payload
\* unchanged.  If it arrived with record_path set, the outgoing path is the
\* received path followed by the sender and record_path stays set, unless
\* the message with the extended path would not fit the maximum message
\* size: then it goes out with record_path cleared and an empty path.  If
\* it arrived with record_path not set, the outgoing path is empty.
PathRecording ==
  (last.op = "trail_route" /\ last.outcome = "forwarded") =>
    /\ Len(last.sent) = 1
    /\ last.sent[1].msg.payload_type = last.msg.payload_type
    /\ last.sent[1].msg.payload_size = last.msg.payload_size
    /\ IF last.msg.record_path = 0
         THEN last.sent[1].msg.path = << >> /\ last.sent[1].msg.record_path = 0
       ELSE IF SizeofTrailRouteMessage
                 + (last.msg.path_length + 1) * SizeofPeerIdentity
                 + last.msg.payload_size >= GNUNET_SERVER_MAX_MESSAGE_SIZE
         THEN last.sent[1].msg.path = << >> /\ last.sent[1].msg.record_path = 0
       ELSE /\ last.sent[1].msg.path = Append(last.msg.path, last.peer)
            /\ last.sent[1].msg.path_length = last.msg.path_length + 1
            /\ last.sent[1].msg.record_path # 0

\* a message was forwarded whose path, extended by the sender, makes the
\* longest message there can be
PathRecordingLongest ==
  /\ last.op = "trail_route"
  /\ last.outcome = "forwarded"
  /\ last.msg.record_path # 0
  /\ last.msg.path_length + 1 = EdgePathLen

\* C28: a payload that reaches the terminal hop is passed to a handler
\* exactly when its type is successor-find, get, get-result or put and, for
\* successor-find, its size is that of a FindSuccessorMessage; in either
\* case nothing is sent on.
TerminalDispatch ==
  (last.op = "trail_route" /\ last.outcome \notin { "dropped", "forwarded", "crash" }) =>
    /\ status = "run"
    /\ last.sent = << >>
    /\ (last.outcome = "handled") <=>
         \/ last.msg.payload_type \in { "GET", "GET_RESULT", "PUT" }
         \/ /\ last.msg.payload_type = "SUCCESSOR_FIND"
            /\ last.msg.payload_size = SizeofFindSuccessorMessage

\* a successor-find of the wrong size reached the terminal hop
TerminalDispatchWrongSize ==
  /\ last.op = "trail_route"
  /\ last.outcome = "bad_size"
  /\ last.msg.payload_type = "SUCCESSOR_FIND"
  /\ last.msg.payload_size # SizeofFindSuccessorMessage

(***************************************************************************)
(* Properties of the random walk ticks.                                    *)
(***************************************************************************)
\* C29: the ticks of do_random_walk serve the layers 0, 1, ...,
\* NUMBER_LAYERED_ID - 1, 0, 1, ... in this order, one layer per tick: the
\* k-th tick puts its finger into the table of layer (k - 1) modulo
\* NUMBER_LAYERED_ID and into no other table, and the counter then names
\* the layer of the tick to come.
LayerRoundRobin ==
  /\ status = "run" =>
       /\ walk_layer = Len(trails) % NUMBER_LAYERED_ID
       /\ \A t \in 1 .. Len(trails) : trails[t].ft = (t - 1) % NUMBER_LAYERED_ID
  /\ (status = "run" /\ last.op = "random_walk") =>
       /\ last.layer = (last.trail - 1) % NUMBER_LAYERED_ID
       /\ \A l \in Layers : \A i \in 1 .. Len(fingers[l].fingers) :
            fingers[l].fingers[i].trail = last.trail
              <=> (l = last.layer /\ i = last.slot + 1)

\* the ticks came back to layer 0 after a round over all layers
LayerRoundRobinWrapped ==
  /\ status = "run"
  /\ last.op = "random_walk"
  /\ last.trail = NUMBER_LAYERED_ID + 1
  /\ last.layer = 0

(***************************************************************************)
(* Properties of GST_ats_del_session.                                      *)
(***************************************************************************)
\* C30: GST_ats_del_session for a record that has no ATS address record
\* (ar is NULL) leaves the process running; if the address is inbound or
\* the record is marked expired, the record is removed from the map and
\* freed once; otherwise the record stays in the map with no session, its
\* unblock task and its back_off as they were.
DelSessionWithoutAr ==
  [][ ( /\ ats_last'.op = "del_session"
        /\ ats_last'.record # NULL
        /\ ai[ats_last'.record].ar = NULL )
      => /\ ats_status' = "run"
         /\ IF IsInbound(ats_last'.address) \/ ai[ats_last'.record].expired
              THEN /\ ats_last'.record \notin p2a'
                   /\ ai'[ats_last'.record].freed = 1
              ELSE /\ ats_last'.record \in p2a'
                   /\ ai'[ats_last'.record].freed = 0
                   /\ ai'[ats_last'.record].session = NULL
                   /\ ai'[ats_last'.record].unblock_task
                        = ai[ats_last'.record].unblock_task
                   /\ ai'[ats_last'.record].back_off = ai[ats_last'.record].back_off ]_vars

\* the session of a blocked inbound address went away while the address
\* had a record for another session
DelSessionWithoutArReached ==
  /\ ats_last.op = "del_session"
  /\ ats_last.record # NULL
  /\ IsInbound(ats_last.address)
  /\ ai[ats_last.record].ar = NULL
  /\ \E j \in p2a : j # ats_last.record /\ ai[j].address = ats_last.address

(***************************************************************************)
(* Properties of blocking and unblocking.                                  *)
(***************************************************************************)
\* the unblock task of record i is pending
TimerPending(i) == IF i \in 1 .. Len(ai) THEN ai[i].unblock_task ELSE FALSE

\* C31: GST_ats_block_address on a record with an ATS address record
\* releases that record, clears ar, arms the unblock task, takes the next
\* step of the back-off and increments num_blocked.  The run of the unblock
\* task adds the address with the record's session to ATS again, stores the
\* new address record in ar, clears the task and decrements num_blocked.
\* And a pending unblock task eventually runs, unless it is cancelled or
\* the process ends first.
BlockAndUnblock ==
  /\ [][ /\ (ats_last'.op = "block_address" /\ ats_last'.record # NULL)
            => /\ ats_status' = "run"
               /\ ai[ats_last'.record].ar # NULL
               /\ ars'[ai[ats_last'.record].ar].state = "released"
               /\ ai'[ats_last'.record].ar = NULL
               /\ ai'[ats_last'.record].unblock_task
               /\ ai'[ats_last'.record].back_off
                    = STD_BACKOFF(ai[ats_last'.record].back_off)
               /\ num_blocked' = num_blocked + 1
         /\ ats_last'.op = "unblock_address"
            => /\ ats_status' = "run"
               /\ ats_last'.record \in p2a'
               /\ ai'[ats_last'.record].ar = Len(ars')
               /\ Len(ars') = Len(ars) + 1
               /\ ars'[Len(ars')].state = "live"
               /\ ars'[Len(ars')].session = ai[ats_last'.record].session
               /\ ~ ai'[ats_last'.record].unblock_task
               /\ num_blocked' = num_blocked - 1 ]_vars
  /\ \A i \in 1 .. MaxAi :
       TimerPending(i) ~> (~ TimerPending(i) \/ ats_status # "run")

\* the unblock task of a blocked record ran
BlockAndUnblockWitness ==
  /\ ats_last.op = "unblock_address"
  /\ ai[ats_last.record].back_off > 0
  /\ ai[ats_last.record].ar # NULL

\* C32: num_blocked is the number of records in the map whose unblock task
\* is pending and is never below zero, and the published number of
\* addresses given to ATS, the size of the map minus num_blocked, is the
\* number of records in the map that hold an ATS address record.
BlockedCounter ==
  ats_status \in { "run", "done" } =>
    /\ num_blocked >= 0
    /\ num_blocked = Cardinality({ i \in p2a : ai[i].unblock_task })
    /\ Cardinality(p2a) - num_blocked = Cardinality({ i \in p2a : ai[i].ar # NULL })

\* a record is blocked while another one is in use
BlockedCounterWitness ==
  /\ ats_status = "run"
  /\ num_blocked = 1
  /\ Cardinality(p2a) = 2

(***************************************************************************)
(* Properties of the ATS address records.                                  *)
(***************************************************************************)
\* C33: no call to ATS is made with an address record that was released
\* before (so no record is released twice); every address record not yet
\* released is held by exactly one AddressInfo in the map; and after
\* shutdown every address record handed out has been released.
AddressRecordReleasedOnce ==
  /\ ats_status # "uaf"
  /\ \A k \in 1 .. Len(ats_last.calls) :
       ats_last.calls[k].call # "address_add" =>
         \A j \in 1 .. (k - 1) :
           (ats_last.calls[j].ar = ats_last.calls[k].ar)
             => ats_last.calls[j].call \notin { "address_destroy" }
  /\ ats_status \in { "run", "done" } =>
       \A r \in 1 .. Len(ars) :
         ars[r].state = "live"
           <=> Cardinality({ i \in p2a : ai[i].ar = r }) = 1
  /\ \A i \in p2a : ai[i].ar # NULL => ai[i].freed = 0
  /\ ats_status = "done" => \A r \in 1 .. Len(ars) : ars[r].state = "released"

\* an address record was released by GNUNET_ATS_address_del_session and a
\* second one by GNUNET_ATS_address_destroy
AddressRecordReleasedWitness ==
  /\ ats_status = "run"
  /\ \E k \in 1 .. Len(ats_last.calls) : ats_last.calls[k].call = "address_del_session"
  /\ \E r \in 1 .. Len(ars) : ars[r].state = "released" /\ ~ ars[r].inbound
  /\ \E r \in 1 .. Len(ars) : ars[r].state = "released" /\ ars[r].inbound

\* C34: GST_ats_del_session (address, s), with the expiration it triggers,
\* removes or changes only the record whose session is s: every other
\* record of that address stays in the map with its session, address
\* record, expired flag and unblock task as they were, and no record is left
\* in the map that has neither session nor address record nor unblock task.
PerRecordIsolation ==
  [][ (ats_last'.op = "del_session" /\ ats_last'.record # NULL)
      => /\ \A j \in p2a :
              (j # ats_last'.record /\ ai[j].address = ats_last'.address)
                => (j \in p2a' /\ ai'[j] = ai[j])
         /\ \A j \in p2a' :
              ai'[j].address = ats_last'.address
                => \/ ai'[j].session # NULL
                   \/ ai'[j].ar # NULL
                   \/ ai'[j].unblock_task ]_vars

\* the session of one of two records of an address went away
PerRecordIsolationReached ==
  /\ ats_last.op = "del_session"
  /\ ats_last.record # NULL
  /\ Cardinality({ j \in 1 .. Len(ai) : ai[j].address = ats_last.address }) = 2

(***************************************************************************)
(* Messages for trails that are not there.                                 *)
(***************************************************************************)
\* C35: a TrailDestroy whose trail id belongs to no trail, or to a trail
\* that was deleted before, is ignored: the process runs on, delete_trail is
\* not called, nothing is sent and no trail, list, map, heap or finger
\* changes.
UnknownDestroyIgnored ==
  [][ ( /\ last'.op = "trail_destroy"
        /\ (last'.trail = NULL \/ trails[last'.trail].freed) )
      => /\ status' = "run"
         /\ last'.deletes = << >>
         /\ last'.sent = << >>
         /\ UNCHANGED << friends_peermap, pred_list, succ_list, trails,
                         trail_map, trail_heap, fingers >> ]_vars

\* a TrailDestroy arrived whose id is not in the map
UnknownDestroyReached == last.op = "trail_destroy" /\ last.trail = NULL

\* C36: a well-formed TrailRoute message whose trail id belongs to no
\* trail, or to a trail that was deleted before, is dropped: the process
\* runs on, the message is neither forwarded nor passed to a payload
\* handler, and no trail, list, map, heap or finger changes.
UnknownRouteDropped ==
  [][ ( /\ last'.op = "trail_route"
        /\ RouteWellFormed(last'.msg)
        /\ \/ MapGet(trail_map, last'.msg.trail_id) = NULL
           \/ trails[MapGet(trail_map, last'.msg.trail_id)].freed )
      => /\ status' = "run"
         /\ last'.sent = << >>
         /\ last'.outcome \notin { "forwarded", "handled" }
         /\ UNCHANGED << friends_peermap, pred_list, succ_list, trails,
                         trail_map, trail_heap, fingers >> ]_vars

\* a well-formed TrailRoute message arrived whose id is not in the map
UnknownRouteReached ==
  /\ last.op = "trail_route"
  /\ RouteWellFormed(last.msg)
  /\ MapGet(trail_map, last.msg.trail_id) = NULL

\* C37: a TrailRoute message is forwarded, or passed to a payload handler,
\* only when its sender is the predecessor or the successor of the trail
\* that its trail id names.
RouteOnlyFromTrailNeighbours ==
  ( /\ last.op = "trail_route"
    /\ RoutedTrail # NULL
    /\ ~ trails[RoutedTrail].freed
    /\ last.outcome \in { "forwarded", "handled" } )
  => \/ /\ trails[RoutedTrail].pred # NULL
        /\ last.peer = trails[RoutedTrail].pred
     \/ /\ trails[RoutedTrail].succ # NULL
        /\ last.peer = trails[RoutedTrail].succ

\* a well-formed TrailRoute message arrived for a live trail from a friend
\* that is neither the predecessor nor the successor of that trail
RouteFromThirdParty ==
  /\ last.op = "trail_route"
  /\ RouteWellFormed(last.msg)
  /\ RoutedTrail # NULL
  /\ ~ trails[RoutedTrail].freed
  /\ last.peer # trails[RoutedTrail].pred
  /\ last.peer # trails[RoutedTrail].succ

(***************************************************************************)
(* Walks from end to end.                                                  *)
(***************************************************************************)
\* C38: the RANDOM_WALK message that a tick of do_random_walk sends carries
\* the layer whose finger table the tick fills, and the RANDOM_WALK message
\* that a relaying hop sends carries the layer of the message it received.
LayerPropagation ==
  /\ last.op = "random_walk"
       => \A k \in 1 .. Len(last.sent) :
            last.sent[k].msg.type = "RANDOM_WALK"
              => last.sent[k].msg.layer = last.layer
  /\ last.op = "random_walk_msg"
       => \A k \in 1 .. Len(last.sent) :
            last.sent[k].msg.type = "RANDOM_WALK"
              => last.sent[k].msg.layer = last.layer

\* a tick that fills a finger table of a layer above 0 sent its message
LayerPropagationAboveZero ==
  /\ last.op = "random_walk"
  /\ last.layer > 0
  /\ \E k \in 1 .. Len(last.sent) : last.sent[k].msg.type = "RANDOM_WALK"

\* C39: this hop's step of the teardown cascade.  Every delete_trail that
\* informs a neighbour tears the segment down (it returns, the trail is
\* freed, the process runs on) and hands each informed neighbour the id
\* under which that neighbour knows the segment: the pred_id to the
\* predecessor, the succ_id to the successor.  A TrailDestroy that arrives
\* from one side of a live trail is passed on in the same direction.
TeardownCascade ==
  /\ \A k \in 1 .. Len(last.deletes) :
       (last.deletes[k].inform_pred \/ last.deletes[k].inform_succ)
         => /\ status = "run"
            /\ last.deletes[k].returned
            /\ trails[last.deletes[k].trail].freed
            /\ ( /\ last.deletes[k].inform_succ
                 /\ trails[last.deletes[k].trail].succ # NULL )
                 => DestroySent(trails[last.deletes[k].trail].succ,
                                trails[last.deletes[k].trail].succ_id)
            /\ ( /\ last.deletes[k].inform_pred
                 /\ trails[last.deletes[k].trail].pred # NULL )
                 => DestroySent(trails[last.deletes[k].trail].pred,
                                trails[last.deletes[k].trail].pred_id)
  /\ ( /\ last.op = "trail_destroy"
       /\ last.trail # NULL
       /\ last.deletes # << >> )
     => /\ ( /\ trails[last.trail].pred # NULL
             /\ last.peer = trails[last.trail].pred
             /\ trails[last.trail].succ # NULL )
             => last.deletes[1].inform_succ
        /\ ( /\ trails[last.trail].succ # NULL
             /\ last.peer = trails[last.trail].succ
             /\ trails[last.trail].pred # NULL )
             => last.deletes[1].inform_pred

\* a TrailDestroy from the predecessor reached an inner hop of a path, whose
\* predecessor and successor are different friends
TeardownCascadeInnerHop ==
  /\ last.op = "trail_destroy"
  /\ last.trail # NULL
  /\ last.deletes # << >>
  /\ trails[last.trail].pred # NULL
  /\ trails[last.trail].succ # NULL
  /\ trails[last.trail].succ # trails[last.trail].pred
  /\ last.peer = trails[last.trail].pred
  /\ last.deletes[1].inform_succ

\* C40: a walk ends and its response finds the way back, hop by hop.  The
\* tick starts the walk with hop count 0 under an id that leads back to its
\* origin trail.  A hop that accepts a RANDOM_WALK sends exactly one message:
\* when the hop count received exceeds the estimate it never extends the walk
\* but answers its predecessor under the id received; when it extends the
\* walk the count received was within the estimate, the count sent is one
\* more, and the id sent leads back to the hop's own trail, which keeps the
\* id received as its pred_id.  A RandomWalkResponse for a live trail with a
\* predecessor is sent on to the predecessor under the pred_id, and one for
\* a live origin trail stops at that trail with the process running.
WalkTermination ==
  /\ last.op = "random_walk"
       => \A k \in 1 .. Len(last.sent) :
            last.sent[k].msg.type = "RANDOM_WALK"
              => /\ last.sent[k].msg.hops_taken = 0
                 /\ MapGet(trail_map, last.sent[k].msg.trail_id) = last.trail
                 /\ trails[last.trail].pred = NULL
                 /\ last.sent[k].to = trails[last.trail].succ
  /\ (last.op = "random_walk_msg" /\ last.ret = "OK")
       => /\ status = "run"
          /\ Len(last.sent) = 1
          /\ trails[last.trail].pred = last.peer
          /\ trails[last.trail].pred_id = last.trail_id
          /\ MapGet(trail_map, last.trail_id) = last.trail
          /\ last.hops_taken > last.nse
               => /\ last.sent[1].to = last.peer
                  /\ last.sent[1].msg.type = "RANDOM_WALK_RESPONSE"
                  /\ last.sent[1].msg.trail_id = last.trail_id
          /\ last.sent[1].msg.type = "RANDOM_WALK"
               => /\ last.hops_taken <= last.nse
                  /\ last.sent[1].msg.hops_taken = last.hops_taken + 1
                  /\ last.sent[1].to = trails[last.trail].succ
                  /\ MapGet(trail_map, last.sent[1].msg.trail_id) = last.trail
          /\ last.sent[1].msg.type \in { "RANDOM_WALK", "RANDOM_WALK_RESPONSE" }
  /\ ( /\ last.op = "random_walk_response"
       /\ last.trail # NULL
       /\ status # "uaf" )
       => IF trails[last.trail].pred # NULL
            THEN /\ status = "run"
                 /\ last.sent =
                      << [ to |-> trails[last.trail].pred,
                           msg |-> RandomWalkResponseMsg(trails[last.trail].pred_id,
                                                         last.location) ] >>
            ELSE /\ status = "run"
                 /\ last.sent = << >>
                 /\ trails[last.trail].ft # NULL

\* a hop extended a walk whose hop count was above 0
WalkTerminationExtended ==
  /\ last.op = "random_walk_msg"
  /\ last.ret = "OK"
  /\ last.hops_taken > 0
  /\ Len(last.sent) = 1
  /\ last.sent[1].msg.type = "RANDOM_WALK"

=============================================================================
